---- MODULE Spec2Model ----
(***************************************************************************)
(* Model of lokalise-glossary-guard's check-orchestration engine:          *)
(*   - the File Scheduler of cmd/validate (validateCmd.RunE, runOneFile,   *)
(*     finalize), specification Spec / FairSpec;                           *)
(*   - the Check Runner (validator.Validate, safeRun, tally),              *)
(*     specification SpecRunner;                                           *)
(*   - the Check Registry (package checks), specification SpecRegistry;    *)
(*   - withFixedPostfix, specification SpecPath;                           *)
(*   - one file through runOneFile with the Fix/Rerun Controller,          *)
(*     specification SpecFile.                                             *)
(* Check names are modelled by the naturals 1..MaxChecks, ordered as the   *)
(* names' string order; 0 is the empty name.  Message texts and rendered   *)
(* output are not modelled.                                                *)
(***************************************************************************)
EXTENDS Integers, Sequences, FiniteSets, TLC

\* ----------------------------------------------------------------- bounds
MaxFiles == 2
MaxParallel == 2
MaxChecks == 2
MaxPrio == 2
\* the width in bits of uint and int in the model (64 on the build's
\* platforms): the conversion int(maxParallel) is modelled at this width
UintBits == 4
\* runtime.GOMAXPROCS(0) of the host
HostProcs == 2

\* --------------------------------------------------------------- statuses
Pass == "PASS"
Fail == "FAIL"
Error == "ERROR"
Warn == "WARN"
\* a status value that is none of the four known ones
Bogus == "BOGUS"
\* a check evaluation that panics instead of returning a Result
Panic == "panic"

KnownStatuses == {Pass, Warn, Fail, Error}
RawResults == KnownStatuses \cup {Bogus, Panic}

\* Go's string order on the status values (sort tie-break of the Runner)
StatusRank(s) ==
    CASE s = Bogus -> 0
      [] s = Error -> 1
      [] s = Fail -> 2
      [] s = Pass -> 3
      [] s = Warn -> 4
      [] OTHER -> 5

\* errors returned by Validate and by finalize
NoErr == "nil"
ErrValidationFailed == "validation failed"
ErrOperation == "one or more files could not be validated due to an error"
ErrEncode == "json encode error"

\* ------------------------------------------------------------ sequences
Range(s) == {s[k] : k \in DOMAIN s}

IsPrefix(p, s) ==
    /\ Len(p) <= Len(s)
    /\ \A k \in DOMAIN p : p[k] = s[k]

\* ------------------------------------------------------------- registry
\* A Check: its name, its priority and its fail-fast flag.
Names == 1..MaxChecks
Prios == 1..MaxPrio
Checks == [name : Names, prio : Prios, ff : BOOLEAN]

\* the comparison without its tie-break on the name
CheckLess_PrioOnly(a, b) == a.prio < b.prio

\* the comparison of Sorted(): priority ascending, then name ascending
CheckLess(a, b) ==
    IF a.prio # b.prio THEN a.prio < b.prio ELSE a.name < b.name

\* sort.SliceStable: the place of all[i] in the stable sorted permutation
SortedRank(all, i) ==
    Cardinality({j \in DOMAIN all :
        j # i /\ (CheckLess(all[j], all[i])
                  \/ (~CheckLess(all[i], all[j]) /\ j < i))}) + 1

Sorted(all) ==
    [p \in 1..Len(all) |-> all[CHOOSE i \in DOMAIN all : SortedRank(all, i) = p]]


\* c.FailFast()
IsCritical(c) == c.ff

\* the subsequence of the checks of s whose FailFast() is ff
Filter(s, ff) ==
    LET F[k \in 0..Len(s)] ==
            IF k = 0 THEN <<>>
            ELSE IF IsCritical(s[k]) = ff THEN Append(F[k-1], s[k]) ELSE F[k-1]
    IN F[Len(s)]

\* a Split() that sorts the critical subset only
Split_NormalAsRegistered(all) ==
    [critical |-> Filter(Sorted(all), TRUE),
     normal |-> Filter(all, FALSE)]

\* Split(): the critical and the normal subset, each in Sorted() order
Split(all) ==
    [critical |-> Filter(Sorted(all), TRUE),
     normal |-> Filter(Sorted(all), FALSE)]

\* registries with one check per name (registered in name order)
Registries ==
    {r \in UNION {[1..n -> Checks] : n \in 0..MaxChecks} :
        \A i, j \in DOMAIN r : i < j => r[i].name < r[j].name}

\* --------------------------------------------------------------- Runner
Result(name, status) == [Name |-> name, Status |-> status]
Outcome(r) == [Result |-> r, Final |-> [DidChange |-> FALSE]]

\* the Summary Validate starts from
NewSummary(path, data) ==
    [FilePath |-> path, Pass |-> 0, Warn |-> 0, Fail |-> 0, Error |-> 0,
     Outcomes |-> <<>>, EarlyExit |-> FALSE, EarlyCheck |-> 0,
     EarlyStatus |-> "", AppliedFixes |-> FALSE,
     FinalData |-> data, FinalPath |-> path]

\* safeRun without its deferred recover: the panic goes on
safeRun_NoRecover(c, raw) == Result(c.name, raw)

\* safeRun: the check's Result, or an ERROR Result when its Run panicked
safeRun(c, raw) ==
    IF raw = Panic THEN Result(c.name, Error) ELSE Result(c.name, raw)

\* a panic that left safeRun unrecovered
Propagates(r) == r.Status = Panic

\* tally that counts an unrecognised status as a pass
tally_UnknownAsPass(sum, r) ==
    CASE r.Status = Pass -> [sum EXCEPT !.Pass = @ + 1]
      [] r.Status = Fail -> [sum EXCEPT !.Fail = @ + 1]
      [] r.Status = Error -> [sum EXCEPT !.Error = @ + 1]
      [] OTHER -> [sum EXCEPT !.Pass = @ + 1]

tally(sum, r) ==
    CASE r.Status = Pass -> [sum EXCEPT !.Pass = @ + 1]
      [] r.Status = Fail -> [sum EXCEPT !.Fail = @ + 1]
      [] r.Status = Error -> [sum EXCEPT !.Error = @ + 1]
      [] OTHER -> [sum EXCEPT !.Error = @ + 1]

\* tally with the Warn counter of the Summary that runOneFile reads
\* (sum.Warn): WARN is the fourth known status and has its own counter
tallyStatus(sum, r) ==
    IF r.Status = Warn THEN [sum EXCEPT !.Warn = @ + 1] ELSE tally(sum, r)

\* Record with the tally forgotten
Record_NoTally(sum, r) ==
    [sum EXCEPT !.Outcomes = Append(@, Outcome(r))]

\* Record that puts the new Outcome first
Record_Prepend(sum, r) ==
    tallyStatus([sum EXCEPT !.Outcomes = <<Outcome(r)>> \o @], r)

\* sum.Results = append(sum.Results, r); tally(&sum, r)
Record(sum, r) ==
    tallyStatus([sum EXCEPT !.Outcomes = Append(@, Outcome(r))], r)

\* fail-fast on FAIL only
IsFailFast_FailOnly(r) == r.Status = Fail

\* the critical loop's test r.Status != checks.Pass
IsFailFast(r) == r.Status # Pass

\* the fail-fast boundary of the critical loop
EarlyExit(sum, c, r) ==
    [sum EXCEPT !.EarlyExit = TRUE, !.EarlyCheck = c.name,
                !.EarlyStatus = r.Status]

\* the comparison of the normal results' sort: name, then status
OutcomeLess(a, b) ==
    IF a.Result.Name # b.Result.Name
    THEN a.Result.Name < b.Result.Name
    ELSE StatusRank(a.Result.Status) < StatusRank(b.Result.Status)

\* sort.SliceStable: the place of s[i] in the stable sorted permutation
OutcomeRank(s, i) ==
    Cardinality({j \in DOMAIN s :
        j # i /\ (OutcomeLess(s[j], s[i])
                  \/ (~OutcomeLess(s[i], s[j]) /\ j < i))}) + 1

SortOutcomes(s) ==
    [p \in 1..Len(s) |-> s[CHOOSE i \in DOMAIN s : OutcomeRank(s, i) = p]]

\* sort.SliceStable(sum.Results[normStart:], ...)
SortNormal(sum, normStart) ==
    [sum EXCEPT !.Outcomes =
        SubSeq(@, 1, normStart)
        \o SortOutcomes(SubSeq(@, normStart + 1, Len(@)))]

RECURSIVE RecordAll(_, _)
RecordAll(sum, rs) ==
    IF rs = <<>> THEN sum ELSE RecordAll(Record(sum, Head(rs)), Tail(rs))

\* for r := range resCh { append; tally }, then the sort
Collect(sum, rs, normStart) == SortNormal(RecordAll(sum, rs), normStart)

\* a final return that looks at the Fail counter only
FinalErr_FailOnly(sum) ==
    IF sum.Fail > 0 THEN ErrValidationFailed ELSE NoErr

\* the error Validate returns with a Summary that is not an early exit
FinalErr(sum) ==
    IF sum.Fail > 0 \/ sum.Error > 0 THEN ErrValidationFailed ELSE NoErr

\* an empty registry reported as a failed validation
EmptyReturn_AsFailure(path, data) ==
    [sum |-> NewSummary(path, data), verr |-> ErrValidationFailed]

\* if total == 0 { return Summary{FilePath: filePath, Results: nil}, nil }
EmptyReturn(path, data) == [sum |-> NewSummary(path, data), verr |-> NoErr]

\* Validate as a function of the results the checks return (raw[name])
RECURSIVE RunCritical(_, _, _, _)
RunCritical(crit, k, sum, raw) ==
    IF k > Len(crit) THEN sum
    ELSE LET r == safeRun(crit[k], raw[crit[k].name])
             s1 == Record(sum, r)
         IN IF IsFailFast(r) THEN EarlyExit(s1, crit[k], r)
            ELSE RunCritical(crit, k + 1, s1, raw)

ValidateFn(all, path, data, raw) ==
    LET sp == Split(all)
        s1 == RunCritical(sp.critical, 1, NewSummary(path, data), raw)
        rs == [k \in 1..Len(sp.normal) |->
                  safeRun(sp.normal[k], raw[sp.normal[k].name])]
        s2 == Collect(s1, rs, Len(sp.critical))
    IN IF Len(all) = 0 THEN EmptyReturn(path, data)
       ELSE IF s1.EarlyExit THEN [sum |-> s1, verr |-> ErrValidationFailed]
       ELSE [sum |-> s2, verr |-> FinalErr(s2)]

\* ------------------------------------------------------- RunOptions
FixNone == "FixNone"
FixIfNotPass == "FixIfNotPass"
\* context.Canceled, which runOneFile does not count as a failure
ErrCanceled == "context canceled"

\* options with the fix mode on whatever --fix says
buildRunOptions_AlwaysFix(fix, rerun, hardFail) ==
    [FixMode |-> FixIfNotPass,
     RerunAfterFix |-> rerun,
     HardFailOnErr |-> hardFail]

\* options in which --hard-fail-on-error also turns the fix mode on
buildRunOptions_HardFailFixes(fix, rerun, hardFail) ==
    [FixMode |-> IF fix \/ hardFail THEN FixIfNotPass ELSE FixNone,
     RerunAfterFix |-> rerun,
     HardFailOnErr |-> hardFail]

buildRunOptions(fix, rerun, hardFail) ==
    [FixMode |-> IF fix THEN FixIfNotPass ELSE FixNone,
     RerunAfterFix |-> rerun,
     HardFailOnErr |-> hardFail]

\* ------------------------------------------------------- fileOutcome
NoSummary == [nil |-> TRUE]

\* the zero value of fileOutcome (a slot of make([]fileOutcome, n))
ZeroOutcome ==
    [Idx |-> 0, Path |-> "", Passed |-> 0, Warned |-> 0, Failed |-> 0,
     Errored |-> 0, HadOpErr |-> FALSE, HadValFail |-> FALSE,
     Summary |-> NoSummary]

\* a failed read recorded as a validation failure
ReadFailed_AsValFail(i, path) ==
    [ZeroOutcome EXCEPT !.Idx = i, !.Path = path,
                        !.HadValFail = TRUE, !.Failed = 1]

\* runOneFile after a failed os.ReadFile
ReadFailed(i, path) ==
    [ZeroOutcome EXCEPT !.Idx = i, !.Path = path,
                        !.HadOpErr = TRUE, !.Errored = 1]

\* a failed write that throws the validation's Summary away
WriteFixed_DropSummary(oc, opts, sum, writeOk) ==
    IF opts.FixMode # FixNone /\ sum.AppliedFixes /\ ~writeOk
    THEN [oc EXCEPT !.HadOpErr = TRUE, !.Errored = @ + 1,
                    !.Summary = NoSummary]
    ELSE oc

\* runOneFile: the write of the *_fixed file
WriteFixed(oc, opts, sum, writeOk) ==
    IF opts.FixMode # FixNone /\ sum.AppliedFixes /\ ~writeOk
    THEN [oc EXCEPT !.HadOpErr = TRUE, !.Errored = @ + 1]
    ELSE oc

\* a failed validation recorded as an operation error
FileVerdict_AsOpErr(oc, sum, verr) ==
    IF sum.Fail > 0 \/ sum.Error > 0 \/ (verr # NoErr /\ verr # ErrCanceled)
    THEN [oc EXCEPT !.Errored = @ + 1, !.HadOpErr = TRUE]
    ELSE IF sum.Warn > 0 THEN [oc EXCEPT !.Warned = @ + 1]
    ELSE [oc EXCEPT !.Passed = @ + 1]

\* the overall result taken from the Summary's counters alone
FileVerdict_CountersOnly(oc, sum, verr) ==
    IF sum.Fail > 0 \/ sum.Error > 0
    THEN [oc EXCEPT !.Failed = @ + 1, !.HadValFail = TRUE]
    ELSE IF sum.Warn > 0 THEN [oc EXCEPT !.Warned = @ + 1]
    ELSE [oc EXCEPT !.Passed = @ + 1]

\* runOneFile: the overall result per file
FileVerdict(oc, sum, verr) ==
    IF sum.Fail > 0 \/ sum.Error > 0 \/ (verr # NoErr /\ verr # ErrCanceled)
    THEN [oc EXCEPT !.Failed = @ + 1, !.HadValFail = TRUE]
    ELSE IF sum.Warn > 0 THEN [oc EXCEPT !.Warned = @ + 1]
    ELSE [oc EXCEPT !.Passed = @ + 1]

\* runOneFile, given whether the read succeeds, what Validate returns and
\* whether the write of the fixed file succeeds
runOneFile(i, path, readOk, vres, opts, writeOk) ==
    IF ~readOk THEN ReadFailed(i, path)
    ELSE LET oc == [ZeroOutcome EXCEPT !.Idx = i, !.Path = path,
                                       !.Summary = vres.sum]
         IN FileVerdict(WriteFixed(oc, opts, vres.sum, writeOk),
                        vres.sum, vres.verr)

\* Validate was not called (the read failed)
NoValidate == [sum |-> NoSummary, verr |-> NoErr]

\* the possible results of os.WriteFile, when runOneFile calls it
WriteOutcomes(o, sum) ==
    IF o.FixMode # FixNone /\ sum.AppliedFixes THEN BOOLEAN ELSE {TRUE}

\* ------------------------------------------------------------ finalize
\* hadOpErr = hadOpErr || oc.HadOpErr over the outcome slice (0..n-1)
hadOpErr(ocs, n) == \E k \in 0..(n - 1) : ocs[k].HadOpErr
\* hadValFail = hadValFail || oc.HadValFail
hadValFail(ocs, n) == \E k \in 0..(n - 1) : ocs[k].HadValFail

\* the aggregate without the validation-failure flag
aggregateReturnCode_OpErrOnly(ocs, n) ==
    IF hadOpErr(ocs, n) THEN ErrOperation ELSE NoErr

\* aggregateReturnCode: the structured mode's return
aggregateReturnCode(ocs, n) ==
    IF hadOpErr(ocs, n) THEN ErrOperation
    ELSE IF hadValFail(ocs, n) THEN ErrValidationFailed
    ELSE NoErr

\* printAndAggregate: one pass over the outcome slice that prints each
\* Output and accumulates the two flags and the per-file counters
printAndAggregate(ocs, n) ==
    LET Acc[k \in 0..n] ==
            IF k = 0
            THEN [hadOpErr |-> FALSE, hadValFail |-> FALSE,
                  filesPassed |-> 0, filesFailed |-> 0, filesErrored |-> 0]
            ELSE [hadOpErr |-> Acc[k - 1].hadOpErr \/ ocs[k - 1].HadOpErr,
                  hadValFail |-> Acc[k - 1].hadValFail \/ ocs[k - 1].HadValFail,
                  filesPassed |-> Acc[k - 1].filesPassed + ocs[k - 1].Passed,
                  filesFailed |-> Acc[k - 1].filesFailed + ocs[k - 1].Failed,
                  filesErrored |-> Acc[k - 1].filesErrored + ocs[k - 1].Errored]
    IN Acc[n]

\* a finalize whose human-readable mode tests the validation failure first
finalize_HumanValFailFirst(ocs, n, json, encodeOk) ==
    IF json
    THEN IF ~encodeOk THEN ErrEncode ELSE aggregateReturnCode(ocs, n)
    ELSE IF printAndAggregate(ocs, n).hadValFail THEN ErrValidationFailed
    ELSE IF printAndAggregate(ocs, n).hadOpErr THEN ErrOperation
    ELSE NoErr

\* finalize: the encoder and aggregateReturnCode in structured mode,
\* printAndAggregate and its two flags in human-readable mode
finalize(ocs, n, json, encodeOk) ==
    IF json
    THEN IF ~encodeOk THEN ErrEncode ELSE aggregateReturnCode(ocs, n)
    ELSE IF printAndAggregate(ocs, n).hadOpErr THEN ErrOperation
    ELSE IF printAndAggregate(ocs, n).hadValFail THEN ErrValidationFailed
    ELSE NoErr

\* ================================================================ state
VARIABLES
    \* command flags (package variables of cmd/validate) and the registry
    files, maxParallel, jsonOut, doFix, rerunAfterFix, hardFailOnErr, All,
    \* File Scheduler (validateCmd.RunE)
    ctxDone,        \* cmd.Context() is cancelled
    jobsClosed,     \* close(jobs) has run
    dpc,            \* dispatcher goroutine: "off", "run", "closed", "cancelled"
    di,             \* index of the next file the dispatcher sends
    workers,        \* number of worker goroutines
    wpc,            \* worker goroutine: "recv", "run", "done"
    wjob,           \* the job a worker holds
    outcomes,       \* the outcome slice, indices 0..len(files)-1
    wg,             \* the WaitGroup counter
    mpc,            \* RunE: "start", "wait", "done"
    ret,            \* the error RunE returns
    validateCalls,  \* per file index, how often Validate was invoked
    unreadable,     \* the file indices whose os.ReadFile failed
    outOfOrder,     \* an outcome was stored before one of a lower index
    runs,           \* per file index, how often its slot was written
    cancelInFlight, \* a job was in flight when the cancellation fired
    \* Check Runner (one Validate call)
    rpc,            \* "off", "idle", "critical", "normal", "returned", "crashed"
    rsum,           \* the Summary under construction / returned
    rerr,           \* the error returned
    criticalChecks, \* Validate's local: the critical subset of Split()
    normalChecks,   \* Validate's local: the normal subset of Split()
    critK,          \* position in the critical loop
    task,           \* per normal check: "none", "spawned", "done"
    resCh,          \* the buffered result channel
    evals,          \* per check name, how often its Run was invoked
    rraw            \* per check name, what its Run returned ("" if not run)

flagVars == <<files, maxParallel, jsonOut, doFix, rerunAfterFix,
              hardFailOnErr, All>>
schedVars == <<ctxDone, jobsClosed, dpc, di, workers, wpc, wjob, outcomes,
               wg, mpc, ret, validateCalls, unreadable, outOfOrder, runs,
               cancelInFlight>>
runnerVars == <<rpc, rsum, rerr, criticalChecks, normalChecks, critK, task,
                resCh, evals, rraw>>

VARIABLES
    \* Check Registry (package checks), driven by a test or by init()s
    regOp,          \* the last registry operation: "none", "register", ...
    registered,     \* the checks passed to Register since the last Reset
    sortedRet,      \* the slice the last Sorted() returned
    retAlias,       \* sortedRet shares the backing array of All
    critRet,        \* the critical slice the last Split() returned
    normRet,        \* the normal slice the last Split() returned
    mutated         \* how many writes were made into returned slices

regVars == <<regOp, registered, sortedRet, retAlias, critRet, normRet, mutated>>

RegistryOff ==
    /\ regOp = "off"
    /\ registered = <<>>
    /\ sortedRet = <<>>
    /\ retAlias = FALSE
    /\ critRet = <<>>
    /\ normRet = <<>>
    /\ mutated = 0

VARIABLES
    \* the derived file name (withFixedPostfix), applied to a path
    ppc,            \* "off", "start", "once", "twice"
    pathIn,         \* the path p
    pathOnce,       \* withFixedPostfix(p)
    pathTwice       \* withFixedPostfix(withFixedPostfix(p))

pathVars == <<ppc, pathIn, pathOnce, pathTwice>>

PathOff ==
    /\ ppc = "off"
    /\ pathIn = <<>>
    /\ pathOnce = <<>>
    /\ pathTwice = <<>>

VARIABLES
    \* one file under runOneFile, with the Fix/Rerun Controller
    fpc,            \* "off", "read", "crit", "norm", "fixes", "passdone",
                    \* "validated", "done"
    fixable,        \* the names of the checks that expose a fix
    fcalls,         \* how many Runner passes were started
    fopts,          \* the RunOptions of the current pass
    fbuf,           \* the working data buffer (0 is the file's content)
    fcrit,          \* the critical subset of the pass
    fnorm,          \* the normal subset of the pass
    fk,             \* position in the critical loop / the deferred fixes
    fsum,           \* the Summary of the current pass
    fsum1,          \* the Summary of the first pass, kept over the rerun
    fret,           \* the Summary Validate returned
    fverr,          \* the error Validate returned
    foc,            \* the fileOutcome runOneFile returned
    wrote,          \* the write of the fixed file: "none", "ok", "failed"
    fixCalls,       \* per pass, how many fixes were invoked
    evalCalls,      \* how many check evaluations were made
    preFix,         \* per check, the status that made its fix run
    fixedOk,        \* checks whose fix changed the buffer and then passed
    lastEval,       \* per check, the status of its latest evaluation
    evalPass,       \* per check, the pass of its latest evaluation
    evalBuf         \* per check, the buffer of its latest evaluation

fileVars == <<fpc, fixable, fcalls, fopts, fbuf, fcrit, fnorm, fk, fsum,
              fsum1, fret, fverr, foc, wrote, fixCalls, evalCalls, preFix,
              fixedOk, lastEval, evalPass, evalBuf>>

\* the state of the components a specification does not run
extVars == <<regVars, pathVars, fileVars>>
\* what the Registry specification leaves alone, besides the flags
regOther == <<schedVars, runnerVars, pathVars, fileVars>>

vars == <<flagVars, schedVars, runnerVars, extVars>>

Min(a, b) == IF a < b THEN a ELSE b
Max(a, b) == IF a > b THEN a ELSE b

\* ------------------------------------------------------ File Scheduler
PathName == <<"a.csv", "b.csv", "c.csv", "d.csv">>

\* what expandFiles returns: a non-empty list without duplicates (the
\* paths are labels: one list per length)
FileLists == {[k \in 1..n |-> PathName[k]] : n \in 1..Min(MaxFiles, 4)}
Paths == UNION {Range(f) : f \in FileLists}

\* the registry of a command run: a critical and a normal check
SchedRegistry ==
    << [name |-> 1, prio |-> 1, ff |-> TRUE],
       [name |-> 2, prio |-> 2, ff |-> FALSE] >>

\* the results drawn for the checks of a command run
SchedRaw == {Pass, Warn, Fail}
SchedNames == {c.name : c \in Range(SchedRegistry)}

\* what validator.Validate can return for a path under SchedRegistry
ValidateResults ==
    [p \in Paths |->
        {ValidateFn(SchedRegistry, p, 0, raw) : raw \in [SchedNames -> SchedRaw]}]

NoJob == [idx |-> 0, path |-> ""]
NumFiles == Len(files)
Workers == 1..workers
opts == buildRunOptions(doFix, rerunAfterFix, hardFailOnErr)

RunnerOff ==
    /\ rpc = "off"
    /\ rsum = NewSummary("", 0)
    /\ rerr = NoErr
    /\ criticalChecks = <<>>
    /\ normalChecks = <<>>
    /\ critK = 0
    /\ task = [n \in Names |-> "none"]
    /\ resCh = <<>>
    /\ evals = [n \in Names |-> 0]
    /\ rraw = [n \in Names |-> ""]

\* the largest number of Runner passes the model follows for one file
MaxPasses == 3

FileOff ==
    /\ fpc = "off"
    /\ fixable = {}
    /\ fcalls = 0
    /\ fopts = buildRunOptions(FALSE, FALSE, FALSE)
    /\ fbuf = 0
    /\ fcrit = <<>>
    /\ fnorm = <<>>
    /\ fk = 0
    /\ fsum = NoSummary
    /\ fsum1 = NoSummary
    /\ fret = NoSummary
    /\ fverr = NoErr
    /\ foc = ZeroOutcome
    /\ wrote = "none"
    /\ fixCalls = [p \in 1..MaxPasses |-> 0]
    /\ evalCalls = 0
    /\ preFix = [n \in Names |-> ""]
    /\ fixedOk = {}
    /\ lastEval = [n \in Names |-> ""]
    /\ evalPass = [n \in Names |-> 0]
    /\ evalBuf = [n \in Names |-> 0]

ExtOff == RegistryOff /\ PathOff /\ FileOff

\* the settings of --fix, --rerun-after-fix and --hard-fail-on-error that
\* are drawn: the defaults, and --fix with each setting of the other two
FixFlags == {<<FALSE, TRUE, FALSE>>, <<TRUE, TRUE, FALSE>>, <<TRUE, FALSE, TRUE>>}

\* the state when RunE is entered (flags parsed, PreRunE passed), but for
\* the value of --parallel
InitFlagsParsed ==
    /\ files \in FileLists
    /\ jsonOut \in BOOLEAN
    /\ \E f \in FixFlags :
          /\ doFix = f[1]
          /\ rerunAfterFix = f[2]
          /\ hardFailOnErr = f[3]
    /\ All = SchedRegistry
    /\ ctxDone = FALSE
    /\ jobsClosed = FALSE
    /\ dpc = "off"
    /\ di = 0
    /\ workers = 0
    /\ wpc = <<>>
    /\ wjob = <<>>
    /\ outcomes = <<>>
    /\ wg = 0
    /\ mpc = "start"
    /\ ret = NoErr
    /\ validateCalls = <<>>
    /\ unreadable = {}
    /\ outOfOrder = FALSE
    /\ runs = <<>>
    /\ cancelInFlight = FALSE
    /\ RunnerOff
    /\ ExtOff

\* the state when RunE is entered, with a small --parallel
Init ==
    /\ maxParallel \in 0..MaxParallel
    /\ InitFlagsParsed

\* the values of a uint
UintValues == 0..(2^UintBits - 1)

\* int(u) of a uint u: the same bits read as two's complement
ToInt(u) == IF u >= 2^(UintBits - 1) THEN u - 2^UintBits ELSE u

\* the worker count of RunE:
\* workers := min(int(maxParallel), len(files)); workers = max(1, workers)
WorkerCount(par, n) == Max(1, Min(ToInt(par), n))

\* RunE up to the start of the goroutines
RunE ==
    /\ mpc = "start"
    /\ maxParallel' = IF maxParallel < 1 THEN HostProcs ELSE maxParallel
    /\ workers' = WorkerCount(maxParallel', NumFiles)
    /\ outcomes' = [i \in 0..(NumFiles - 1) |-> ZeroOutcome]
    /\ validateCalls' = [i \in 0..(NumFiles - 1) |-> 0]
    /\ runs' = [i \in 0..(NumFiles - 1) |-> 0]
    /\ wg' = workers'
    /\ wpc' = [w \in 1..workers' |-> "recv"]
    /\ wjob' = [w \in 1..workers' |-> NoJob]
    /\ dpc' = "run"
    /\ di' = 0
    /\ mpc' = "wait"
    /\ UNCHANGED <<files, jsonOut, doFix, rerunAfterFix, hardFailOnErr, All,
                   ctxDone, jobsClosed, ret, unreadable, outOfOrder,
                   cancelInFlight, runnerVars, extVars>>

\* the cancellation signal fires
CancelSignal ==
    /\ ~ctxDone
    /\ mpc # "done"
    /\ ctxDone' = TRUE
    /\ UNCHANGED <<flagVars, jobsClosed, dpc, di, workers, wpc, wjob,
                   outcomes, wg, mpc, ret, validateCalls, unreadable, outOfOrder,
                   runs, runnerVars, extVars>>

Cancel ==
    /\ CancelSignal
    /\ UNCHANGED cancelInFlight

\* the cancellation signal fires, and it is noted whether a worker was
\* running a job at that moment
CancelNoted ==
    /\ CancelSignal
    /\ cancelInFlight' = \E w \in DOMAIN wpc : wpc[w] = "run"

\* a send that every receiving worker takes
DispatcherSend_Broadcast(w) ==
    /\ dpc = "run"
    /\ di < NumFiles
    /\ wpc[w] = "recv"
    /\ wjob' = [v \in DOMAIN wjob |->
                  IF wpc[v] = "recv" THEN [idx |-> di, path |-> files[di + 1]]
                  ELSE wjob[v]]
    /\ wpc' = [v \in DOMAIN wpc |-> IF wpc[v] = "recv" THEN "run" ELSE wpc[v]]
    /\ di' = di + 1
    /\ UNCHANGED <<flagVars, ctxDone, jobsClosed, dpc, workers, outcomes,
                   wg, mpc, ret, validateCalls, unreadable, outOfOrder,
                   runs, cancelInFlight, runnerVars, extVars>>

\* a send that a worker takes while it is still running its previous job
DispatcherSend_ToBusy(w) ==
    /\ dpc = "run"
    /\ di < NumFiles
    /\ wpc[w] \in {"recv", "run"}
    /\ wjob' = [wjob EXCEPT ![w] = [idx |-> di, path |-> files[di + 1]]]
    /\ wpc' = [wpc EXCEPT ![w] = "run"]
    /\ di' = di + 1
    /\ UNCHANGED <<flagVars, ctxDone, jobsClosed, dpc, workers, outcomes,
                   wg, mpc, ret, validateCalls, unreadable, outOfOrder,
                   runs, cancelInFlight, runnerVars, extVars>>

\* dispatcher: the select's send case, taken with a worker that is
\* receiving on the unbuffered channel
DispatcherSend(w) ==
    /\ dpc = "run"
    /\ di < NumFiles
    /\ wpc[w] = "recv"
    /\ wjob' = [wjob EXCEPT ![w] = [idx |-> di, path |-> files[di + 1]]]
    /\ wpc' = [wpc EXCEPT ![w] = "run"]
    /\ di' = di + 1
    /\ UNCHANGED <<flagVars, ctxDone, jobsClosed, dpc, workers, outcomes,
                   wg, mpc, ret, validateCalls, unreadable, outOfOrder,
                   runs, cancelInFlight, runnerVars, extVars>>

\* dispatcher: the select's <-ctx.Done() case: return
DispatcherCancelled ==
    /\ dpc = "run"
    /\ di < NumFiles
    /\ ctxDone
    /\ dpc' = "cancelled"
    /\ UNCHANGED <<flagVars, ctxDone, jobsClosed, di, workers, wpc, wjob,
                   outcomes, wg, mpc, ret, validateCalls, unreadable, outOfOrder,
                   runs, cancelInFlight, runnerVars, extVars>>

\* dispatcher: the loop is over, close(jobs)
DispatcherClose ==
    /\ dpc = "run"
    /\ di = NumFiles
    /\ jobsClosed' = TRUE
    /\ dpc' = "closed"
    /\ UNCHANGED <<flagVars, ctxDone, di, workers, wpc, wjob, outcomes,
                   wg, mpc, ret, validateCalls, unreadable, outOfOrder,
                   runs, cancelInFlight, runnerVars, extVars>>

\* the outcomes stored in completion order
StoreOutcome_Append(ocs, j, oc) ==
    [ocs EXCEPT ![CHOOSE k \in DOMAIN ocs :
                    /\ ocs[k] = ZeroOutcome
                    /\ \A m \in DOMAIN ocs : m < k => ocs[m] # ZeroOutcome] = oc]

\* outcomes[j.idx] = oc
StoreOutcome(ocs, j, oc) == [ocs EXCEPT ![j.idx] = oc]

\* a worker that drops the job in its hands once the context is cancelled
WorkerRunOneFile_AbortOnCancel(w) ==
    /\ wpc[w] = "run"
    /\ All = SchedRegistry
    /\ LET j == wjob[w]
       IN \/ /\ ctxDone
             /\ UNCHANGED <<outcomes, unreadable, validateCalls>>
          \/ /\ ~ctxDone
             /\ outcomes' = StoreOutcome(outcomes, j,
                    runOneFile(j.idx, j.path, FALSE, NoValidate, opts, TRUE))
             /\ unreadable' = unreadable \cup {j.idx}
             /\ UNCHANGED validateCalls
          \/ /\ ~ctxDone
             /\ \E vres \in ValidateResults[j.path] :
                \E writeOk \in WriteOutcomes(opts, vres.sum) :
                   /\ outcomes' = StoreOutcome(outcomes, j,
                          runOneFile(j.idx, j.path, TRUE, vres, opts, writeOk))
                   /\ validateCalls' = [validateCalls EXCEPT ![j.idx] = @ + 1]
                   /\ UNCHANGED unreadable
    /\ outOfOrder' = (outOfOrder \/ \E k \in 0..(wjob[w].idx - 1) :
                                      outcomes[k] = ZeroOutcome)
    /\ runs' = [runs EXCEPT ![wjob[w].idx] = @ + 1]
    /\ wpc' = [wpc EXCEPT ![w] = "recv"]
    /\ UNCHANGED <<flagVars, ctxDone, jobsClosed, dpc, di, workers, wjob,
                   wg, mpc, ret, cancelInFlight, runnerVars, extVars>>

\* worker: outcomes[j.idx] = runOneFile(ctx, j.idx, j.path, ...); the read
\* may fail, Validate runs on the registry, the write of the fixed file
\* may fail
WorkerRunOneFile(w) ==
    /\ wpc[w] = "run"
    /\ All = SchedRegistry
    /\ LET j == wjob[w]
       IN \/ /\ outcomes' = StoreOutcome(outcomes, j,
                    runOneFile(j.idx, j.path, FALSE, NoValidate, opts, TRUE))
             /\ unreadable' = unreadable \cup {j.idx}
             /\ UNCHANGED validateCalls
          \/ \E vres \in ValidateResults[j.path] :
             \E writeOk \in WriteOutcomes(opts, vres.sum) :
                /\ outcomes' = StoreOutcome(outcomes, j,
                       runOneFile(j.idx, j.path, TRUE, vres, opts, writeOk))
                /\ validateCalls' = [validateCalls EXCEPT ![j.idx] = @ + 1]
                /\ UNCHANGED unreadable
    /\ outOfOrder' = (outOfOrder \/ \E k \in 0..(wjob[w].idx - 1) :
                                      outcomes[k] = ZeroOutcome)
    /\ runs' = [runs EXCEPT ![wjob[w].idx] = @ + 1]
    /\ wpc' = [wpc EXCEPT ![w] = "recv"]
    /\ UNCHANGED <<flagVars, ctxDone, jobsClosed, dpc, di, workers, wjob,
                   wg, mpc, ret, cancelInFlight, runnerVars, extVars>>

\* worker: range jobs ends on the closed channel; deferred wg.Done()
WorkerExit(w) ==
    /\ wpc[w] = "recv"
    /\ jobsClosed
    /\ wpc' = [wpc EXCEPT ![w] = "done"]
    /\ wg' = wg - 1
    /\ UNCHANGED <<flagVars, ctxDone, jobsClosed, dpc, di, workers, wjob,
                   outcomes, mpc, ret, validateCalls, unreadable, outOfOrder,
                   runs, cancelInFlight, runnerVars, extVars>>

\* finalize called without waiting for the workers
WaitAndFinalize_NoWait ==
    /\ mpc = "wait"
    /\ \E encodeOk \in BOOLEAN :
          ret' = finalize(outcomes, NumFiles, jsonOut, encodeOk)
    /\ mpc' = "done"
    /\ UNCHANGED <<flagVars, ctxDone, jobsClosed, dpc, di, workers, wpc,
                   wjob, outcomes, wg, validateCalls, unreadable, outOfOrder,
                   runs, cancelInFlight, runnerVars, extVars>>

\* RunE: wg.Wait() returns; return finalize(outcomes, len(files), start)
WaitAndFinalize ==
    /\ mpc = "wait"
    /\ wg = 0
    /\ \E encodeOk \in BOOLEAN :
          ret' = finalize(outcomes, NumFiles, jsonOut, encodeOk)
    /\ mpc' = "done"
    /\ UNCHANGED <<flagVars, ctxDone, jobsClosed, dpc, di, workers, wpc,
                   wjob, outcomes, wg, validateCalls, unreadable, outOfOrder,
                   runs, cancelInFlight, runnerVars, extVars>>

Next ==
    \/ RunE
    \/ Cancel
    \/ \E w \in Workers : DispatcherSend(w)
    \/ DispatcherCancelled
    \/ DispatcherClose
    \/ \E w \in Workers : WorkerRunOneFile(w)
    \/ \E w \in Workers : WorkerExit(w)
    \/ WaitAndFinalize

Spec == Init /\ [][Next]_vars

\* ------------------------------------------------- the validate command
\* The command from its parsed flags: PreRunE, then RunE when PreRunE
\* returned no error.  The --files values are path names and blanks (glob
\* patterns, which expandFiles resolves on the file system, are left out).
ErrNoFiles == "no files provided; use --files to specify one or more CSV files"
ErrNoMatch == "no files matched the provided patterns"
ErrNoChecks == "no checks to run"

RawTokens == Paths \cup {""}
RawFileArgs == UNION {[1..n -> RawTokens] : n \in 0..MaxFiles}

\* expandFiles: the non-blank values in order, each one once
expandFiles(fs) ==
    LET E[k \in 0..Len(fs)] ==
            IF k = 0 THEN <<>>
            ELSE IF fs[k] = "" \/ fs[k] \in Range(E[k - 1]) THEN E[k - 1]
            ELSE Append(E[k - 1], fs[k])
    IN E[Len(fs)]

InitCommand ==
    /\ files \in RawFileArgs
    /\ maxParallel \in 1..MaxParallel
    /\ jsonOut = FALSE
    /\ doFix = FALSE
    /\ rerunAfterFix = TRUE
    /\ hardFailOnErr = FALSE
    /\ All \in {<<>>, SchedRegistry}
    /\ ctxDone = FALSE
    /\ jobsClosed = FALSE
    /\ dpc = "off"
    /\ di = 0
    /\ workers = 0
    /\ wpc = <<>>
    /\ wjob = <<>>
    /\ outcomes = <<>>
    /\ wg = 0
    /\ mpc = "prerun"
    /\ ret = NoErr
    /\ validateCalls = <<>>
    /\ unreadable = {}
    /\ outOfOrder = FALSE
    /\ runs = <<>>
    /\ cancelInFlight = FALSE
    /\ RunnerOff
    /\ ExtOff

\* a PreRunE without the test of the registry
PreRunE_NoChecksTest ==
    /\ mpc = "prerun"
    /\ IF Len(files) = 0
       THEN /\ ret' = ErrNoFiles
            /\ mpc' = "failed"
            /\ files' = files
       ELSE IF expandFiles(files) = <<>>
       THEN /\ ret' = ErrNoMatch
            /\ mpc' = "failed"
            /\ files' = <<>>
       ELSE /\ ret' = ret
            /\ mpc' = "start"
            /\ files' = expandFiles(files)
    /\ UNCHANGED <<maxParallel, jsonOut, doFix, rerunAfterFix, hardFailOnErr,
                   All, ctxDone, jobsClosed, dpc, di, workers, wpc, wjob,
                   outcomes, wg, validateCalls, unreadable, outOfOrder, runs,
                   cancelInFlight, runnerVars, extVars>>

\* PreRunE: no --files, expandFiles and its error, an empty registry;
\* cobra runs RunE only when PreRunE returned nil
PreRunE ==
    /\ mpc = "prerun"
    /\ IF Len(files) = 0
       THEN /\ ret' = ErrNoFiles
            /\ mpc' = "failed"
            /\ files' = files
       ELSE IF expandFiles(files) = <<>>
       THEN /\ ret' = ErrNoMatch
            /\ mpc' = "failed"
            /\ files' = <<>>
       ELSE IF Len(All) = 0
       THEN /\ ret' = ErrNoChecks
            /\ mpc' = "failed"
            /\ files' = expandFiles(files)
       ELSE /\ ret' = ret
            /\ mpc' = "start"
            /\ files' = expandFiles(files)
    /\ UNCHANGED <<maxParallel, jsonOut, doFix, rerunAfterFix, hardFailOnErr,
                   All, ctxDone, jobsClosed, dpc, di, workers, wpc, wjob,
                   outcomes, wg, validateCalls, unreadable, outOfOrder, runs,
                   cancelInFlight, runnerVars, extVars>>

NextCommand ==
    \/ PreRunE
    \/ Next

SpecCommand == InitCommand /\ [][NextCommand]_vars

\* The File Scheduler with the moment of the cancellation noted, for a run
\* with the default flags.
InitInFlight ==
    /\ Init
    /\ ~jsonOut
    /\ ~doFix

NextInFlight ==
    \/ RunE
    \/ CancelNoted
    \/ \E w \in Workers : DispatcherSend(w)
    \/ DispatcherCancelled
    \/ DispatcherClose
    \/ \E w \in Workers : WorkerRunOneFile(w)
    \/ \E w \in Workers : WorkerExit(w)
    \/ WaitAndFinalize

SpecInFlight == InitInFlight /\ [][NextInFlight]_vars

\* RunE entered with any value of the unsigned flag --parallel, up to the
\* start of the goroutines
InitAnyParallel ==
    /\ maxParallel \in UintValues
    /\ InitFlagsParsed

NextWorkerCount == RunE

SpecWorkerCount == InitAnyParallel /\ [][NextWorkerCount]_vars

\* Go schedules every runnable goroutine; the cancellation signal is the
\* environment's and has no fairness
FairSpec ==
    /\ Spec
    /\ WF_vars(RunE)
    /\ WF_vars(\E w \in Workers : DispatcherSend(w))
    /\ WF_vars(DispatcherCancelled)
    /\ WF_vars(DispatcherClose)
    /\ WF_vars(\E w \in Workers : WorkerRunOneFile(w))
    /\ WF_vars(\E w \in Workers : WorkerExit(w))
    /\ WF_vars(WaitAndFinalize)

\* -------------------------------------------------------- Check Runner
\* One call Validate(path, data) on the registry All, step by step.
RunnerPath == "a.csv"
RunnerData == 0

\* RunE has not been entered
SchedIdle ==
    /\ files = <<RunnerPath>>
    /\ maxParallel = 1
    /\ jsonOut = FALSE
    /\ ctxDone = FALSE
    /\ jobsClosed = FALSE
    /\ dpc = "off"
    /\ di = 0
    /\ workers = 0
    /\ wpc = <<>>
    /\ wjob = <<>>
    /\ outcomes = <<>>
    /\ wg = 0
    /\ mpc = "off"
    /\ ret = NoErr
    /\ validateCalls = <<>>
    /\ unreadable = {}
    /\ outOfOrder = FALSE
    /\ runs = <<>>
    /\ cancelInFlight = FALSE

SchedulerOff ==
    /\ doFix = FALSE
    /\ rerunAfterFix = FALSE
    /\ hardFailOnErr = FALSE
    /\ SchedIdle

InitRunner ==
    /\ All \in Registries
    /\ SchedulerOff
    /\ ExtOff
    /\ rpc = "idle"
    /\ rsum = NewSummary("", 0)
    /\ rerr = NoErr
    /\ criticalChecks = <<>>
    /\ normalChecks = <<>>
    /\ critK = 0
    /\ task = [n \in Names |-> "none"]
    /\ resCh = <<>>
    /\ evals = [n \in Names |-> 0]
    /\ rraw = [n \in Names |-> ""]

\* Validate: Split(), the empty-registry return, the Summary
ValidateStart ==
    /\ rpc = "idle"
    /\ criticalChecks' = Split(All).critical
    /\ normalChecks' = Split(All).normal
    /\ IF Len(criticalChecks') + Len(normalChecks') = 0
       THEN /\ rsum' = EmptyReturn(RunnerPath, RunnerData).sum
            /\ rerr' = EmptyReturn(RunnerPath, RunnerData).verr
            /\ rpc' = "returned"
            /\ critK' = critK
       ELSE /\ rsum' = NewSummary(RunnerPath, RunnerData)
            /\ rerr' = NoErr
            /\ rpc' = "critical"
            /\ critK' = 1
    /\ UNCHANGED <<extVars, flagVars, schedVars, task, resCh, evals, rraw>>

\* one iteration of the loop over the critical checks
CriticalStep ==
    /\ rpc = "critical"
    /\ critK <= Len(criticalChecks)
    /\ \E raw \in RawResults :
          LET c == criticalChecks[critK]
              r == safeRun(c, raw)
              s1 == Record(rsum, r)
          IN /\ evals' = [evals EXCEPT ![c.name] = @ + 1]
             /\ rraw' = [rraw EXCEPT ![c.name] = raw]
             /\ IF Propagates(r)
                THEN /\ rpc' = "crashed"
                     /\ UNCHANGED <<rsum, rerr, critK>>
                ELSE IF IsFailFast(r)
                THEN /\ rsum' = EarlyExit(s1, c, r)
                     /\ rerr' = ErrValidationFailed
                     /\ rpc' = "returned"
                     /\ critK' = critK
                ELSE /\ rsum' = s1
                     /\ critK' = critK + 1
                     /\ UNCHANGED <<rerr, rpc>>
    /\ UNCHANGED <<extVars, flagVars, schedVars, criticalChecks, normalChecks, task,
                   resCh>>

NormalNames == {normalChecks[k].name : k \in DOMAIN normalChecks}

\* the critical loop is over: one goroutine per normal check
SpawnNormal ==
    /\ rpc = "critical"
    /\ critK > Len(criticalChecks)
    /\ Len(normalChecks) > 0
    /\ task' = [n \in Names |-> IF n \in NormalNames THEN "spawned" ELSE task[n]]
    /\ rpc' = "normal"
    /\ UNCHANGED <<extVars, flagVars, schedVars, rsum, rerr, criticalChecks,
                   normalChecks, critK, resCh, evals, rraw>>

\* a normal check's goroutine: resCh <- safeRun(c, ...)
NormalTask(k) ==
    /\ rpc = "normal"
    /\ task[normalChecks[k].name] = "spawned"
    /\ \E raw \in RawResults :
          LET c == normalChecks[k]
              r == safeRun(c, raw)
          IN /\ evals' = [evals EXCEPT ![c.name] = @ + 1]
             /\ rraw' = [rraw EXCEPT ![c.name] = raw]
             /\ IF Propagates(r)
                THEN /\ rpc' = "crashed"
                     /\ UNCHANGED <<resCh, task>>
                ELSE /\ resCh' = Append(resCh, r)
                     /\ task' = [task EXCEPT ![c.name] = "done"]
                     /\ rpc' = rpc
    /\ UNCHANGED <<extVars, flagVars, schedVars, rsum, rerr, criticalChecks,
                   normalChecks, critK>>

\* one finished task taken for all of them
NormalDone_Any == \E n \in NormalNames : task[n] = "done"

\* wg.Wait(): every normal check's goroutine has called wg.Done()
NormalDone == \A n \in NormalNames : task[n] = "done"

\* wg.Wait() returns: close(resCh), drain it, sort, return
CollectNormal ==
    /\ rpc = "normal"
    /\ NormalDone
    /\ rsum' = Collect(rsum, resCh, Len(criticalChecks))
    /\ rerr' = FinalErr(rsum')
    /\ resCh' = <<>>
    /\ rpc' = "returned"
    /\ UNCHANGED <<extVars, flagVars, schedVars, criticalChecks, normalChecks, critK,
                   task, evals, rraw>>

\* no normal checks: return after the critical loop
ReturnCritical ==
    /\ rpc = "critical"
    /\ critK > Len(criticalChecks)
    /\ Len(normalChecks) = 0
    /\ rerr' = FinalErr(rsum)
    /\ rpc' = "returned"
    /\ UNCHANGED <<extVars, flagVars, schedVars, rsum, criticalChecks, normalChecks,
                   critK, task, resCh, evals, rraw>>

NextRunner ==
    \/ ValidateStart
    \/ CriticalStep
    \/ SpawnNormal
    \/ \E k \in DOMAIN normalChecks : NormalTask(k)
    \/ CollectNormal
    \/ ReturnCritical

SpecRunner == InitRunner /\ [][NextRunner]_vars

\* ------------------------------- Check Runner, checks under one name
\* Validate's normal phase on a registry in which Register was called more
\* than once with one name (Register appends).  Here task, evals and rraw
\* are indexed by the position of the check in normalChecks.  A Result
\* carries its Message, told apart by the check that wrote it.
SameNameRegistries ==
    UNION {{[k \in 1..n |-> [name |-> f[k], prio |-> k, ff |-> FALSE]] :
               f \in [1..n -> Names]} : n \in 1..MaxChecks}

MsgResult(c, status) ==
    [Name |-> c.name, Status |-> status, Message |-> c.prio]

InitSameName ==
    /\ All \in SameNameRegistries
    /\ SchedulerOff
    /\ ExtOff
    /\ rpc = "idle"
    /\ rsum = NewSummary("", 0)
    /\ rerr = NoErr
    /\ criticalChecks = <<>>
    /\ normalChecks = <<>>
    /\ critK = 0
    /\ task = [n \in Names |-> "none"]
    /\ resCh = <<>>
    /\ evals = [n \in Names |-> 0]
    /\ rraw = [n \in Names |-> ""]

\* Validate up to the start of the normal checks' goroutines
SameNameStart ==
    /\ rpc = "idle"
    /\ criticalChecks' = Split(All).critical
    /\ normalChecks' = Split(All).normal
    /\ rsum' = NewSummary(RunnerPath, RunnerData)
    /\ critK' = Len(criticalChecks') + 1
    /\ task' = [k \in Names |->
                   IF k <= Len(normalChecks') THEN "spawned" ELSE "none"]
    /\ rpc' = "normal"
    /\ UNCHANGED <<extVars, flagVars, schedVars, rerr, resCh, evals, rraw>>

\* the goroutine of the normal check at position k:
\* resCh <- safeRun(c, ...)
SameNameTask(k) ==
    /\ rpc = "normal"
    /\ task[k] = "spawned"
    /\ \E raw \in KnownStatuses :
          /\ resCh' = Append(resCh, MsgResult(normalChecks[k], raw))
          /\ rraw' = [rraw EXCEPT ![k] = raw]
    /\ evals' = [evals EXCEPT ![k] = @ + 1]
    /\ task' = [task EXCEPT ![k] = "done"]
    /\ UNCHANGED <<extVars, flagVars, schedVars, rpc, rsum, rerr,
                   criticalChecks, normalChecks, critK>>

\* wg.Wait() returns: close(resCh), drain it, sort, return
SameNameCollect ==
    /\ rpc = "normal"
    /\ \A k \in DOMAIN normalChecks : task[k] = "done"
    /\ rsum' = Collect(rsum, resCh, Len(criticalChecks))
    /\ rerr' = FinalErr(rsum')
    /\ resCh' = <<>>
    /\ rpc' = "returned"
    /\ UNCHANGED <<extVars, flagVars, schedVars, criticalChecks, normalChecks,
                   critK, task, evals, rraw>>

NextSameName ==
    \/ SameNameStart
    \/ \E k \in DOMAIN normalChecks : SameNameTask(k)
    \/ SameNameCollect

SpecSameName == InitSameName /\ [][NextSameName]_vars

\* ------------------------------------------------------ Check Registry
\* The package variable All under Register, Sorted, Split and Reset, called
\* in any order by a driver that may write into the slices it got back.
MaxMutations == 1

\* the value a caller writes into a returned slice
Mutated == [name |-> 0, prio |-> 0, ff |-> FALSE]

\* All = append(All, c)
Register(all, c) == Append(all, c)

\* Reset that leaves the registry as it is
Reset_Noop(all) == all

\* All = nil
Reset(all) == <<>>

\* Sorted() that sorts All in place and returns it
SortedCall_InPlace(all) ==
    [all |-> Sorted(all), out |-> Sorted(all), alias |-> TRUE]

\* Sorted(): out := make(..); copy(out, All); sort out; return out.
\* all is All after the call, out the returned slice, alias whether the
\* two share a backing array
SortedCall(all) == [all |-> all, out |-> Sorted(all), alias |-> FALSE]

OthersOff ==
    /\ SchedulerOff
    /\ RunnerOff
    /\ PathOff
    /\ FileOff

InitRegistry ==
    /\ All = <<>>
    /\ OthersOff
    /\ regOp = "none"
    /\ registered = <<>>
    /\ sortedRet = <<>>
    /\ retAlias = FALSE
    /\ critRet = <<>>
    /\ normRet = <<>>
    /\ mutated = 0

\* Register(c); the driver holds no slice of an earlier call any more
RegRegister ==
    /\ Len(All) < MaxChecks
    /\ \E c \in Checks :
          /\ All' = Register(All, c)
          /\ registered' = Append(registered, c)
    /\ regOp' = "register"
    /\ sortedRet' = <<>>
    /\ critRet' = <<>>
    /\ normRet' = <<>>
    /\ retAlias' = FALSE
    /\ UNCHANGED <<files, maxParallel, jsonOut, doFix, rerunAfterFix,
                   hardFailOnErr, regOther, mutated>>

\* out := Sorted()
RegSorted ==
    /\ regOp # "sorted"
    /\ LET r == SortedCall(All)
       IN /\ All' = r.all
          /\ sortedRet' = r.out
          /\ retAlias' = r.alias
    /\ regOp' = "sorted"
    /\ critRet' = <<>>
    /\ normRet' = <<>>
    /\ UNCHANGED <<files, maxParallel, jsonOut, doFix, rerunAfterFix,
                   hardFailOnErr, regOther, registered, mutated>>

\* crit, norm := Split()
RegSplit ==
    /\ regOp # "split"
    /\ critRet' = Split(All).critical
    /\ normRet' = Split(All).normal
    /\ regOp' = "split"
    /\ sortedRet' = <<>>
    /\ retAlias' = FALSE
    /\ UNCHANGED <<flagVars, regOther, registered, mutated>>

\* the driver writes into a slice it got back: out[k] = Mutated
RegMutateSorted ==
    /\ mutated < MaxMutations
    /\ \E k \in DOMAIN sortedRet :
          /\ sortedRet' = [sortedRet EXCEPT ![k] = Mutated]
          /\ All' = IF retAlias /\ k \in DOMAIN All
                    THEN [All EXCEPT ![k] = Mutated] ELSE All
    /\ mutated' = mutated + 1
    /\ regOp' = "mutate"
    /\ UNCHANGED <<files, maxParallel, jsonOut, doFix, rerunAfterFix,
                   hardFailOnErr, regOther, registered,
                   retAlias, critRet, normRet>>

\* crit[k] = Mutated or norm[k] = Mutated
RegMutateSplit ==
    /\ mutated < MaxMutations
    /\ \/ \E k \in DOMAIN critRet :
             /\ critRet' = [critRet EXCEPT ![k] = Mutated]
             /\ UNCHANGED normRet
       \/ \E k \in DOMAIN normRet :
             /\ normRet' = [normRet EXCEPT ![k] = Mutated]
             /\ UNCHANGED critRet
    /\ mutated' = mutated + 1
    /\ regOp' = "mutate"
    /\ UNCHANGED <<flagVars, regOther, registered, sortedRet,
                   retAlias>>

\* Reset()
RegReset ==
    /\ regOp # "reset"
    /\ All' = Reset(All)
    /\ registered' = <<>>
    /\ retAlias' = FALSE
    /\ regOp' = "reset"
    /\ UNCHANGED <<files, maxParallel, jsonOut, doFix, rerunAfterFix,
                   hardFailOnErr, regOther, sortedRet, critRet,
                   normRet, mutated>>

NextRegistry ==
    \/ RegRegister
    \/ RegSorted
    \/ RegSplit
    \/ RegMutateSorted
    \/ RegMutateSplit
    \/ RegReset

SpecRegistry == InitRegistry /\ [][NextRegistry]_vars

\* ---------------------------------------------------- withFixedPostfix
\* A path is a sequence of characters; the marker "_fixed" is one symbol of
\* the alphabet (it holds no dot and no separator, and no proper prefix of
\* it is a suffix of it).
MaxPathLen == 4
PathChars == {"a", ".", "/", "_fixed"}
PathStrings == UNION {[1..n -> PathChars] : n \in 0..MaxPathLen}
FixedMarker == <<"_fixed">>

\* strings.HasSuffix
HasSuffix(str, suffix) ==
    /\ Len(str) >= Len(suffix)
    /\ SubSeq(str, Len(str) - Len(suffix) + 1, Len(str)) = suffix

\* strings.TrimSuffix
TrimSuffix(str, suffix) ==
    IF HasSuffix(str, suffix)
    THEN SubSeq(str, 1, Len(str) - Len(suffix))
    ELSE str

\* filepath.Ext: the suffix beginning at the final dot of the final path
\* element, empty if there is none
Ext(path) ==
    LET seps == {i \in DOMAIN path : path[i] = "/"}
        lastSep == IF seps = {} THEN 0
                   ELSE CHOOSE i \in seps : \A j \in seps : j <= i
        dots == {i \in DOMAIN path : i > lastSep /\ path[i] = "."}
    IN IF dots = {} THEN <<>>
       ELSE SubSeq(path, CHOOSE i \in dots : \A j \in dots : j <= i, Len(path))

\* the marker appended without the test for its presence
withFixedPostfix_Always(path) ==
    TrimSuffix(path, Ext(path)) \o FixedMarker \o Ext(path)

withFixedPostfix(path) ==
    LET ext == Ext(path)
        base == TrimSuffix(path, ext)
    IN IF HasSuffix(base, FixedMarker)
       THEN base \o ext
       ELSE base \o FixedMarker \o ext

pathOther == <<flagVars, schedVars, runnerVars, regVars, fileVars>>

InitPath ==
    /\ All = <<>>
    /\ SchedulerOff
    /\ RunnerOff
    /\ RegistryOff
    /\ FileOff
    /\ ppc = "start"
    /\ pathIn \in PathStrings
    /\ pathOnce = <<>>
    /\ pathTwice = <<>>

\* outPath := withFixedPostfix(sum.FinalPath)
ApplyOnce ==
    /\ ppc = "start"
    /\ pathOnce' = withFixedPostfix(pathIn)
    /\ ppc' = "once"
    /\ UNCHANGED <<pathOther, pathIn, pathTwice>>

\* the transform applied to its own result
ApplyTwice ==
    /\ ppc = "once"
    /\ pathTwice' = withFixedPostfix(pathOnce)
    /\ ppc' = "twice"
    /\ UNCHANGED <<pathOther, pathIn, pathOnce>>

NextPath ==
    \/ ApplyOnce
    \/ ApplyTwice

SpecPath == InitPath /\ [][NextPath]_vars

\* ------------------------------------------- runOneFile with the fixes
\* One file through runOneFile: the read, Validate under the Fix/Rerun
\* Controller (a first Runner pass that may apply fixes, at most one rerun
\* on the corrected buffer), the write of the *_fixed file, the verdict.
\* Data buffers are numbered: 0 is the content read, and every fix that
\* changes the buffer yields the next number.
FixStatuses == {Pass, Warn, Fail}

\* registries of checks 1..n, each critical or normal
FileRegistries ==
    UNION {{[k \in 1..n |-> [name |-> k, prio |-> 1, ff |-> f[k]]] :
               f \in [1..n -> BOOLEAN]} : n \in 0..MaxChecks}

\* a fix is invoked for a non-Pass Result of a check that has one, in
\* fix mode FixIfNotPass only
WantsFix(o, c, r, fx) ==
    o.FixMode = FixIfNotPass /\ r.Status # Pass /\ c.name \in fx

StatusCount(ocs, st) ==
    Cardinality({k \in DOMAIN ocs : ocs[k].Result.Status = st})

\* the counters of a Summary, from its Outcomes
Retally(sum) ==
    [sum EXCEPT !.Pass = StatusCount(sum.Outcomes, Pass),
                !.Warn = StatusCount(sum.Outcomes, Warn),
                !.Fail = StatusCount(sum.Outcomes, Fail),
                !.Error = StatusCount(sum.Outcomes, Error)]

\* the fix changed the buffer, but the Result of before the fix stays
Refresh_KeepStale(sum, k, r) ==
    [sum EXCEPT !.Outcomes[k].Final.DidChange = TRUE]

\* the fix changed the buffer: the check was evaluated again on it, and
\* its recorded Result is refreshed
Refresh(sum, k, r) ==
    Retally([sum EXCEPT !.Outcomes[k].Result = r,
                        !.Outcomes[k].Final.DidChange = TRUE])

\* a pass that marks applied-fixes whatever its fixes did
ClosePass_AlwaysApplied(sum, buf) ==
    [sum EXCEPT !.AppliedFixes = TRUE, !.FinalData = buf]

\* the end of a pass: applied-fixes, the final buffer
ClosePass(sum, buf) ==
    [sum EXCEPT !.AppliedFixes =
                    \E k \in DOMAIN sum.Outcomes : sum.Outcomes[k].Final.DidChange,
                !.FinalData = buf]

NeedsRerun(o, sum) == o.RerunAfterFix /\ sum.AppliedFixes

\* the rerun under the options of the first pass
RerunOptions_Same(o) == o

\* the rerun runs with fix mode None and asks for no further rerun
RerunOptions(o) == [o EXCEPT !.FixMode = FixNone, !.RerunAfterFix = FALSE]

FinalOf(first, n) ==
    IF \E k \in DOMAIN first.Outcomes : first.Outcomes[k].Result.Name = n
    THEN first.Outcomes[CHOOSE k \in DOMAIN first.Outcomes :
                            first.Outcomes[k].Result.Name = n].Final
    ELSE [DidChange |-> FALSE]

\* the Summary of the rerun returned as it is
MergeRerun_SecondOnly(first, second) == second

\* the Summary of the first pass returned after a rerun
MergeRerun_KeepFirst(first, second) == first

\* the Summary returned after a rerun: the second pass's Outcomes and
\* counters; of the first pass, what says that a corrected file is to be
\* written (applied-fixes, the changed marks, the final buffer and path)
MergeRerun(first, second) ==
    [second EXCEPT
        !.AppliedFixes = first.AppliedFixes,
        !.FinalData = first.FinalData,
        !.FinalPath = first.FinalPath,
        !.Outcomes = [k \in DOMAIN second.Outcomes |->
            [second.Outcomes[k] EXCEPT
                !.Final = FinalOf(first, second.Outcomes[k].Result.Name)]]]

\* the error Validate returns with the Summary
ControllerErr(sum) ==
    IF sum.EarlyExit THEN ErrValidationFailed ELSE FinalErr(sum)

RegNamesOf(all) == {all[k].name : k \in DOMAIN all}
OutcomeIndex(sum, n) ==
    CHOOSE k \in DOMAIN sum.Outcomes : sum.Outcomes[k].Result.Name = n

InitFile ==
    /\ All \in FileRegistries
    /\ fixable \in SUBSET RegNamesOf(All)
    /\ \E f \in FixFlags :
          /\ doFix = f[1]
          /\ rerunAfterFix = f[2]
          /\ hardFailOnErr = f[3]
    /\ SchedIdle
    /\ RunnerOff
    /\ RegistryOff
    /\ PathOff
    /\ fpc = "read"
    /\ fcalls = 0
    /\ fopts = buildRunOptions(FALSE, FALSE, FALSE)
    /\ fbuf = 0
    /\ fcrit = <<>>
    /\ fnorm = <<>>
    /\ fk = 0
    /\ fsum = NoSummary
    /\ fsum1 = NoSummary
    /\ fret = NoSummary
    /\ fverr = NoErr
    /\ foc = ZeroOutcome
    /\ wrote = "none"
    /\ fixCalls = [p \in 1..MaxPasses |-> 0]
    /\ evalCalls = 0
    /\ preFix = [n \in Names |-> ""]
    /\ fixedOk = {}
    /\ lastEval = [n \in Names |-> ""]
    /\ evalPass = [n \in Names |-> 0]
    /\ evalBuf = [n \in Names |-> 0]

fileOther == <<flagVars, schedVars, runnerVars, regVars, pathVars, fixable>>
fileGhosts == <<fixCalls, evalCalls, preFix, fixedOk, lastEval, evalPass,
                evalBuf>>

\* evaluation is a pure function of the buffer: a check evaluated again on
\* the buffer of its latest evaluation returns the same status
Pure(n, buf, st) ==
    (evalPass[n] # 0 /\ evalBuf[n] = buf) => st = lastEval[n]

\* a Runner pass begins: Split(), the empty Summary
StartPass(o, data) ==
    /\ fcalls' = fcalls + 1
    /\ fopts' = o
    /\ fbuf' = data
    /\ fcrit' = Split(All).critical
    /\ fnorm' = Split(All).normal
    /\ fk' = 1
    /\ fsum' = NewSummary(RunnerPath, data)
    /\ fpc' = "crit"

\* os.ReadFile failed
FileReadFails ==
    /\ fpc = "read"
    /\ foc' = runOneFile(0, RunnerPath, FALSE, NoValidate, opts, TRUE)
    /\ fpc' = "done"
    /\ UNCHANGED <<fileOther, fileGhosts, fcalls, fopts, fbuf, fcrit, fnorm,
                   fk, fsum, fsum1, fret, fverr, wrote>>

\* sum, vErr := validator.Validate(ctx, path, data, langs, opts)
FileValidate ==
    /\ fpc = "read"
    /\ StartPass(opts, 0)
    /\ UNCHANGED <<fileOther, fileGhosts, fsum1, fret, fverr, foc, wrote>>

\* what the ghost variables note of an evaluation of c, with its fix
NoteEval(c, r0, r, fix, changed) ==
    /\ evalCalls' = evalCalls + (IF changed THEN 2 ELSE 1)
    /\ fixCalls' = [fixCalls EXCEPT ![fcalls] = @ + (IF fix THEN 1 ELSE 0)]
    /\ preFix' = IF fix THEN [preFix EXCEPT ![c.name] = r0.Status] ELSE preFix
    /\ fixedOk' = IF changed /\ r.Status = Pass
                  THEN fixedOk \cup {c.name} ELSE fixedOk
    /\ lastEval' = [lastEval EXCEPT ![c.name] = r.Status]
    /\ evalPass' = [evalPass EXCEPT ![c.name] = fcalls]
    /\ evalBuf' = [evalBuf EXCEPT ![c.name] = fbuf']

\* the fail-fast test taken on the Result of before the fix
DecidingResult_BeforeFix(r0, r) == r0

\* the Result the fail-fast test of a critical check is taken on: the one
\* of the evaluation after the fix, when there was one (r0 otherwise)
DecidingResult(r0, r) == r

\* the critical phase, one check: evaluate, record; fix and evaluate
\* again when the fix applies; stop the pass on a non-Pass Result
FileCritical ==
    /\ fpc = "crit"
    /\ fk <= Len(fcrit)
    /\ \E r0s \in FixStatuses, cand \in {fbuf, fbuf + 1}, r1s \in FixStatuses :
          LET c == fcrit[fk]
              r0 == Result(c.name, r0s)
              fix == WantsFix(fopts, c, r0, fixable)
              changed == fix /\ cand # fbuf
              r == IF changed THEN Result(c.name, r1s) ELSE r0
              s1 == Record(fsum, r0)
              s2 == IF changed THEN Refresh(s1, Len(s1.Outcomes), r) ELSE s1
          IN /\ Pure(c.name, fbuf, r0s)
             /\ ~fix => cand = fbuf
             /\ ~changed => r1s = r0s
             /\ fbuf' = cand
             /\ IF IsFailFast(DecidingResult(r0, r))
                THEN /\ fsum' = EarlyExit(s2, c, DecidingResult(r0, r))
                     /\ fpc' = "passdone"
                     /\ fk' = fk
                ELSE /\ fsum' = s2
                     /\ fpc' = fpc
                     /\ fk' = fk + 1
             /\ NoteEval(c, r0, r, fix, changed)
    /\ UNCHANGED <<fileOther, fcalls, fopts, fcrit, fnorm, fsum1, fret,
                   fverr, foc, wrote>>

\* the critical loop ran to its end
FileCriticalDone ==
    /\ fpc = "crit"
    /\ fk > Len(fcrit)
    /\ fpc' = "norm"
    /\ UNCHANGED <<fileOther, fileGhosts, fcalls, fopts, fbuf, fcrit, fnorm,
                   fk, fsum, fsum1, fret, fverr, foc, wrote>>

\* the normal phase: every normal check evaluated on the same buffer,
\* the Results recorded in sorted order
FileNormal ==
    /\ fpc = "norm"
    /\ \E raw \in [RegNamesOf(fnorm) -> FixStatuses] :
          LET rs == [k \in 1..Len(fnorm) |->
                        Result(fnorm[k].name, raw[fnorm[k].name])]
          IN /\ \A n \in RegNamesOf(fnorm) : Pure(n, fbuf, raw[n])
             /\ fsum' = Collect(fsum, rs, Len(fcrit))
             /\ evalBuf' = [n \in Names |->
                   IF n \in RegNamesOf(fnorm) THEN fbuf ELSE evalBuf[n]]
             /\ lastEval' = [n \in Names |->
                   IF n \in RegNamesOf(fnorm) THEN raw[n] ELSE lastEval[n]]
             /\ evalPass' = [n \in Names |->
                   IF n \in RegNamesOf(fnorm) THEN fcalls ELSE evalPass[n]]
    /\ evalCalls' = evalCalls + Len(fnorm)
    /\ fk' = 1
    /\ fpc' = "fixes"
    /\ UNCHANGED <<fileOther, fixCalls, preFix, fixedOk, fcalls, fopts, fbuf,
                   fcrit, fnorm, fsum1, fret, fverr, foc, wrote>>

\* the deferred fixes of the normal phase, one check, in sorted order
FileDeferredFix ==
    /\ fpc = "fixes"
    /\ fk <= Len(fnorm)
    /\ \E cand \in {fbuf, fbuf + 1}, r1s \in FixStatuses :
          LET c == fnorm[fk]
              idx == OutcomeIndex(fsum, c.name)
              r0 == fsum.Outcomes[idx].Result
              fix == WantsFix(fopts, c, r0, fixable)
              changed == fix /\ cand # fbuf
              r == IF changed THEN Result(c.name, r1s) ELSE r0
          IN /\ ~fix => cand = fbuf
             /\ ~changed => r1s = r0.Status
             /\ fbuf' = cand
             /\ fsum' = IF changed THEN Refresh(fsum, idx, r) ELSE fsum
             /\ evalCalls' = evalCalls + (IF changed THEN 1 ELSE 0)
             /\ fixCalls' = [fixCalls EXCEPT ![fcalls] = @ + (IF fix THEN 1 ELSE 0)]
             /\ preFix' = IF fix THEN [preFix EXCEPT ![c.name] = r0.Status]
                          ELSE preFix
             /\ fixedOk' = IF changed /\ r.Status = Pass
                           THEN fixedOk \cup {c.name} ELSE fixedOk
             /\ lastEval' = [lastEval EXCEPT ![c.name] = r.Status]
             /\ evalBuf' = IF changed THEN [evalBuf EXCEPT ![c.name] = cand]
                           ELSE evalBuf
    /\ fk' = fk + 1
    /\ UNCHANGED <<fileOther, evalPass, fpc, fcalls, fopts, fcrit, fnorm,
                   fsum1, fret, fverr, foc, wrote>>

FileFixesDone ==
    /\ fpc = "fixes"
    /\ fk > Len(fnorm)
    /\ fpc' = "passdone"
    /\ UNCHANGED <<fileOther, fileGhosts, fcalls, fopts, fbuf, fcrit, fnorm,
                   fk, fsum, fsum1, fret, fverr, foc, wrote>>

\* the Controller after a pass that applied fixes: the one rerun
FileRerun ==
    /\ fpc = "passdone"
    /\ fcalls < MaxPasses
    /\ NeedsRerun(fopts, ClosePass(fsum, fbuf))
    /\ fsum1' = IF fcalls = 1 THEN ClosePass(fsum, fbuf) ELSE fsum1
    /\ StartPass(RerunOptions(fopts), fbuf)
    /\ UNCHANGED <<fileOther, fileGhosts, fret, fverr, foc, wrote>>

\* the Controller returns the Summary and the error
FileReturn ==
    /\ fpc = "passdone"
    /\ ~(fcalls < MaxPasses /\ NeedsRerun(fopts, ClosePass(fsum, fbuf)))
    /\ fsum' = ClosePass(fsum, fbuf)
    /\ fret' = IF fcalls > 1 THEN MergeRerun(fsum1, fsum') ELSE fsum'
    /\ fverr' = ControllerErr(fret')
    /\ fpc' = "validated"
    /\ UNCHANGED <<fileOther, fileGhosts, fcalls, fopts, fbuf, fcrit, fnorm,
                   fk, fsum1, foc, wrote>>

\* runOneFile after Validate: the write of the fixed file, the verdict
FileFinish ==
    /\ fpc = "validated"
    /\ \E writeOk \in WriteOutcomes(opts, fret) :
          /\ foc' = runOneFile(0, RunnerPath, TRUE,
                               [sum |-> fret, verr |-> fverr], opts, writeOk)
          /\ wrote' = IF opts.FixMode # FixNone /\ fret.AppliedFixes
                      THEN IF writeOk THEN "ok" ELSE "failed"
                      ELSE "none"
    /\ fpc' = "done"
    /\ UNCHANGED <<fileOther, fileGhosts, fcalls, fopts, fbuf, fcrit, fnorm,
                   fk, fsum, fsum1, fret, fverr>>

NextFile ==
    \/ FileReadFails
    \/ FileValidate
    \/ FileCritical
    \/ FileCriticalDone
    \/ FileNormal
    \/ FileDeferredFix
    \/ FileFixesDone
    \/ FileRerun
    \/ FileReturn
    \/ FileFinish

SpecFile == InitFile /\ [][NextFile]_vars

\* ------------------------- runOneFile, the normal phase task by task
\* The same file, with the normal phase of a pass taken apart: one task
\* per normal check evaluates it on the working buffer, the tasks end in
\* any order and send their Results on resCh, the Results are recorded
\* when all tasks have ended, and the deferred fixes follow.
fileTaskOther == <<flagVars, schedVars, regVars, pathVars, fixable, rpc, rsum,
                   rerr, criticalChecks, normalChecks, critK, evals, rraw>>

\* the normal phase begins: one task per normal check
FileNormalSpawn ==
    /\ fpc = "norm"
    /\ task' = [n \in Names |->
                  IF n \in RegNamesOf(fnorm) THEN "spawned" ELSE "none"]
    /\ resCh' = <<>>
    /\ fpc' = "evals"
    /\ UNCHANGED <<fileTaskOther, fileGhosts, fcalls, fopts, fbuf, fcrit,
                   fnorm, fk, fsum, fsum1, fret, fverr, foc, wrote>>

\* a task that applies the fix of its check as soon as it has its Result
FileNormalTask_FixInTask(n) ==
    /\ fpc = "evals"
    /\ task[n] = "spawned"
    /\ \E st \in FixStatuses :
          LET fix == fopts.FixMode = FixIfNotPass /\ st # Pass /\ n \in fixable
          IN /\ Pure(n, fbuf, st)
             /\ resCh' = Append(resCh, Result(n, st))
             /\ lastEval' = [lastEval EXCEPT ![n] = st]
             /\ evalPass' = [evalPass EXCEPT ![n] = fcalls]
             /\ evalBuf' = [evalBuf EXCEPT ![n] = fbuf]
             /\ fbuf' = IF fix THEN fbuf + 1 ELSE fbuf
             /\ preFix' = IF fix THEN [preFix EXCEPT ![n] = st] ELSE preFix
             /\ fixCalls' = [fixCalls EXCEPT
                                ![fcalls] = @ + (IF fix THEN 1 ELSE 0)]
    /\ evalCalls' = evalCalls + 1
    /\ task' = [task EXCEPT ![n] = "done"]
    /\ UNCHANGED <<fileTaskOther, fixedOk, fpc, fcalls, fopts, fcrit, fnorm,
                   fk, fsum, fsum1, fret, fverr, foc, wrote>>

\* the task of normal check n: evaluate it on the working buffer, send
\* the Result
FileNormalTask(n) ==
    /\ fpc = "evals"
    /\ task[n] = "spawned"
    /\ \E st \in FixStatuses :
          /\ Pure(n, fbuf, st)
          /\ resCh' = Append(resCh, Result(n, st))
          /\ lastEval' = [lastEval EXCEPT ![n] = st]
          /\ evalPass' = [evalPass EXCEPT ![n] = fcalls]
          /\ evalBuf' = [evalBuf EXCEPT ![n] = fbuf]
    /\ evalCalls' = evalCalls + 1
    /\ task' = [task EXCEPT ![n] = "done"]
    /\ UNCHANGED <<fileTaskOther, fixCalls, preFix, fixedOk, fpc, fcalls,
                   fopts, fbuf, fcrit, fnorm, fk, fsum, fsum1, fret, fverr,
                   foc, wrote>>

\* all tasks have ended: the Results are recorded and put in order
FileNormalCollect ==
    /\ fpc = "evals"
    /\ \A n \in RegNamesOf(fnorm) : task[n] = "done"
    /\ fsum' = Collect(fsum, resCh, Len(fcrit))
    /\ resCh' = <<>>
    /\ fk' = 1
    /\ fpc' = "fixes"
    /\ UNCHANGED <<fileTaskOther, fileGhosts, task, fcalls, fopts, fbuf,
                   fcrit, fnorm, fsum1, fret, fverr, foc, wrote>>

NextFileTasks ==
    \/ FileReadFails
    \/ FileValidate
    \/ FileCritical
    \/ FileCriticalDone
    \/ FileNormalSpawn
    \/ \E n \in Names : FileNormalTask(n)
    \/ FileNormalCollect
    \/ FileDeferredFix
    \/ FileFixesDone
    \/ FileRerun
    \/ FileReturn
    \/ FileFinish

SpecFileTasks == InitFile /\ [][NextFileTasks]_vars

\* =============================================================== claims
FileIdx == 0..(NumFiles - 1)
AnyFileFlag == \E i \in FileIdx : outcomes[i].HadOpErr \/ outcomes[i].HadValFail

\* C1: when RunE returns, slot i of the outcome slice holds the outcome of
\* the i-th input path (Idx = i, Path = files[i]), in whatever order the
\* workers stored the outcomes.
C1_OutcomesInInputOrder ==
    mpc = "done" =>
        \A i \in FileIdx : outcomes[i].Idx = i /\ outcomes[i].Path = files[i + 1]

\* two workers, and a later file's outcome was stored before an earlier one's
C1_Witness ==
    /\ mpc = "done"
    /\ workers >= 2
    /\ NumFiles >= 2
    /\ outOfOrder

\* C2: the Scheduler always eventually returns (RunE reaches finalize), also
\* when the cancellation signal fires with jobs not yet dispatched.
C2_SchedulerReturns == <>(mpc = "done")

\* C3: once the cancellation signal has fired, the dispatcher sends no
\* further job (no job not yet sent is sent or started).
C3_NoDispatchAfterCancel == [][ctxDone => di' = di]_vars

\* C4 (as stated): finalize returns a non-nil error if and only if some
\* FileOutcome has the operation-error or the validation-failure flag set.
C4_ErrorIffAnyFlag ==
    mpc = "done" => (ret # NoErr <=> AnyFileFlag)

\* C4 (amended): finalize returns a non-nil error if and only if some
\* FileOutcome has one of the two flags set or, in JSON mode, encoding the
\* outcome slice fails; with a flag set and the encoding succeeding the
\* error is the aggregate's.
C4_ErrorIffAnyFlagOrEncode ==
    mpc = "done" =>
        /\ AnyFileFlag => ret # NoErr
        /\ (ret # NoErr /\ ~AnyFileFlag) => (jsonOut /\ ret = ErrEncode)
        /\ ret = ErrEncode => jsonOut
        /\ ~jsonOut => (ret # NoErr <=> AnyFileFlag)

\* a run that ends with exit zero next to one that fails on a validation
\* failure alone
C4_Witness ==
    /\ mpc = "done"
    /\ NumFiles >= 2
    /\ ret = ErrValidationFailed
    /\ \E i \in FileIdx : outcomes[i].HadValFail
    /\ \E i \in FileIdx : ~outcomes[i].HadValFail /\ ~outcomes[i].HadOpErr

\* C10: an unreadable file gets operation-error = true, validation-failure =
\* false and no Summary, Validate is never invoked for it, and every other
\* file of the batch is still processed and has its own outcome on return.
C10_UnreadableFile ==
    /\ \A i \in unreadable :
          /\ outcomes[i].HadOpErr
          /\ ~outcomes[i].HadValFail
          /\ outcomes[i].Summary = NoSummary
          /\ outcomes[i].Idx = i /\ outcomes[i].Path = files[i + 1]
          /\ validateCalls[i] = 0
    /\ mpc = "done" =>
          \A i \in FileIdx \ unreadable :
              /\ validateCalls[i] = 1
              /\ outcomes[i].Summary # NoSummary
              /\ outcomes[i].Summary.FilePath = files[i + 1]
              /\ outcomes[i].Path = files[i + 1]

\* the first file is unreadable and the second one was validated and passed
C10_Witness ==
    /\ mpc = "done"
    /\ NumFiles >= 2
    /\ 0 \in unreadable
    /\ 1 \notin unreadable
    /\ outcomes[1].Passed = 1
    /\ ret = ErrOperation

\* the files whose stored outcome carries a Summary with early-exit set
EarlyExitFiles ==
    {i \in DOMAIN outcomes :
        /\ outcomes[i].Summary # NoSummary
        /\ outcomes[i].Summary.EarlyExit}

C40_ExitDecisionFormatIndependent ==
    mpc = "done" =>
        LET js == finalize(outcomes, NumFiles, TRUE, TRUE)
            hr == finalize(outcomes, NumFiles, FALSE, TRUE)
        IN /\ js = NoErr <=> hr = NoErr
           /\ js = hr
           /\ hadOpErr(outcomes, NumFiles) => (js = ErrOperation /\ hr = ErrOperation)
           /\ (~hadOpErr(outcomes, NumFiles) /\ hadValFail(outcomes, NumFiles)) =>
                 (js = ErrValidationFailed /\ hr = ErrValidationFailed)
           /\ ret # ErrEncode => ret = finalize(outcomes, NumFiles, ~jsonOut, TRUE)

\* a human-readable run has finished with an operation error on one file
\* and a validation failure on another: the operation error is returned
C40_Witness ==
    /\ mpc = "done"
    /\ ~jsonOut
    /\ hadOpErr(outcomes, NumFiles)
    /\ hadValFail(outcomes, NumFiles)
    /\ ret = ErrOperation
    /\ finalize(outcomes, NumFiles, TRUE, TRUE) = ErrOperation

\* C39: with no checks registered the validate command returns an error
\* from PreRunE (the configuration error "no checks to run" when files
\* were given) and RunE is never entered: no worker is started, no job is
\* sent, no file is read and no Validate is called.
C39_NoChecksFailsBeforeWork ==
    /\ Len(All) = 0 =>
          /\ mpc \in {"prerun", "failed"}
          /\ workers = 0
          /\ wpc = <<>>
          /\ wg = 0
          /\ dpc = "off"
          /\ di = 0
          /\ ~jobsClosed
          /\ outcomes = <<>>
          /\ runs = <<>>
          /\ validateCalls = <<>>
          /\ unreadable = {}
          /\ mpc = "failed" =>
                /\ ret \in {ErrNoFiles, ErrNoMatch, ErrNoChecks}
                /\ files # <<>> => ret = ErrNoChecks
    /\ mpc = "failed" =>
          /\ ret # NoErr
          /\ ret = ErrNoChecks <=> (Len(All) = 0 /\ files # <<>>)
    /\ mpc \in {"start", "wait", "done"} => (Len(All) > 0 /\ files # <<>>)

\* two files were given and no check is registered: the command has
\* failed and nothing was started
C39_Witness ==
    /\ mpc = "failed"
    /\ Len(All) = 0
    /\ Len(files) = 2
    /\ ret = ErrNoChecks
    /\ workers = 0
    /\ di = 0

\* ---------------------------------------------------- Cancellation claims
\* the slot of file i holds the whole outcome of runOneFile for that file:
\* either the record of a failed read, or the Summary of a Validate that
\* ran all the checks the fail-fast rule lets it run
JobCompleted(i) ==
    /\ outcomes[i] # ZeroOutcome
    /\ outcomes[i].Idx = i
    /\ outcomes[i].Path = files[i + 1]
    /\ \/ outcomes[i].HadOpErr /\ outcomes[i].Summary = NoSummary
       \/ \E v \in ValidateResults[files[i + 1]] : outcomes[i].Summary = v.sum

InProcess == {i \in 0..(di - 1) : outcomes[i] = ZeroOutcome}
\* the workers inside runOneFile
Running == {w \in DOMAIN wpc : wpc[w] = "run"}

\* C28: at every moment of a run the number of files being processed is at
\* most the size of the worker pool (itself at most the parallelism setting
\* and the file count), each of them in the hands of a worker of its own;
\* and a worker takes a new job only while receiving, after the outcome of
\* its previous job was stored.
C28_BoundedConcurrency ==
    /\ [](mpc # "start" =>
            /\ Len(wpc) = workers
            /\ workers <= maxParallel
            /\ workers <= NumFiles
            /\ Cardinality(InProcess) <= workers
            /\ \A i \in InProcess :
                  \E w \in Running : wjob[w].idx = i
            /\ \A v, w \in Running : wjob[v].idx = wjob[w].idx => v = w)
    /\ [][\A w \in DOMAIN wpc :
             wjob'[w] # wjob[w] =>
                 /\ wpc[w] = "recv"
                 /\ wpc'[w] = "run"
                 /\ wjob[w] # NoJob => outcomes[wjob[w].idx] # ZeroOutcome]_vars

\* a pool of one worker with two files: the worker is running the second
\* file, the outcome of the first one is stored
C28_Witness ==
    /\ mpc = "wait"
    /\ workers = 1
    /\ NumFiles = 2
    /\ wpc[1] = "run"
    /\ wjob[1].idx = 1
    /\ outcomes[0] # ZeroOutcome
    /\ InProcess = {1}

\* the workers that are running file i
Holders(i) == {w \in Running : wjob[w].idx = i}

\* C29: every job the dispatcher sends is received by exactly one worker
\* and processed exactly once: a send hands the next index to one worker
\* and to no other, a sent file is either held by exactly one running
\* worker and not yet processed, or held by none and processed once, no
\* file is processed or validated twice, and when RunE returns every sent
\* job has been processed once.
C29_EachJobOnce ==
    /\ [](mpc # "start" =>
            /\ \A i \in 0..(NumFiles - 1) :
                  /\ runs[i] <= 1
                  /\ validateCalls[i] <= runs[i]
                  /\ IF i < di
                     THEN Cardinality(Holders(i)) = 1 - runs[i]
                     ELSE runs[i] = 0 /\ Holders(i) = {}
            /\ mpc = "done" => \A i \in 0..(di - 1) : runs[i] = 1)
    /\ [][di' # di =>
             /\ di' = di + 1
             /\ \E w \in DOMAIN wpc :
                   /\ wpc[w] = "recv"
                   /\ wpc'[w] = "run"
                   /\ wjob'[w] = [idx |-> di, path |-> files[di + 1]]
                   /\ \A v \in DOMAIN wpc \ {w} :
                         wjob'[v] = wjob[v] /\ wpc'[v] = wpc[v]]_vars

\* two workers have each processed one of two files, once, and RunE has
\* returned
C29_Witness ==
    /\ mpc = "done"
    /\ workers = 2
    /\ NumFiles = 2
    /\ wjob[1].idx # wjob[2].idx
    /\ wjob[1] # NoJob
    /\ wjob[2] # NoJob
    /\ \A i \in 0..1 : runs[i] = 1

\* ---------------------------------------------------- Outcome slice claims
\* C30: each slot of the outcome slice is written at most once, by the one
\* worker that holds its index, while RunE waits; finalize reads the slice
\* only when the wait group is at zero and every worker has left its loop,
\* and no slot is written during or after that read.
C30_WriteOnceReadAfterJoin ==
    /\ [](mpc # "start" =>
            /\ wg = Cardinality({w \in DOMAIN wpc : wpc[w] # "done"})
            /\ \A i \in DOMAIN outcomes :
                  /\ runs[i] <= 1
                  /\ (runs[i] = 0) = (outcomes[i] = ZeroOutcome))
    /\ [][mpc # "start" =>
             /\ \A i \in DOMAIN outcomes :
                   (outcomes'[i] # outcomes[i] \/ runs'[i] # runs[i]) =>
                       /\ mpc = "wait" /\ mpc' = "wait"
                       /\ outcomes[i] = ZeroOutcome
                       /\ outcomes'[i].Idx = i
                       /\ \E w \in Holders(i) :
                             /\ Holders(i) = {w}
                             /\ wpc'[w] = "recv"
                       /\ \A k \in DOMAIN outcomes \ {i} :
                             outcomes'[k] = outcomes[k]
             /\ mpc' # mpc =>
                   /\ wg = 0
                   /\ \A w \in DOMAIN wpc : wpc[w] = "done"
                   /\ outcomes' = outcomes
                   /\ \E encodeOk \in BOOLEAN :
                         ret' = finalize(outcomes', NumFiles, jsonOut, encodeOk)
             /\ mpc = "done" => outcomes' = outcomes]_vars

\* both slots were written, the second before the first, by two workers
\* that have both left their loops, and finalize has read the slice
C30_Witness ==
    /\ mpc = "done"
    /\ NumFiles = 2
    /\ workers = 2
    /\ outOfOrder
    /\ wg = 0
    /\ \A w \in DOMAIN wpc : wpc[w] = "done"
    /\ \A i \in DOMAIN outcomes : outcomes[i] # ZeroOutcome /\ runs[i] = 1

\* ---------------------------------------------------- Worker count claims
\* C27: for every value p >= 1 of the unsigned parallelism setting and every
\* file count n >= 1, RunE starts min(p, n) workers; for p = 0 the host
\* default replaces p; the worker count is at least 1 and at most n.
C27_WorkersAreMin ==
    [][(mpc = "start" /\ mpc' = "wait") =>
          LET p == IF maxParallel = 0 THEN HostProcs ELSE maxParallel
          IN /\ maxParallel' = p
             /\ workers' = Min(p, NumFiles)
             /\ workers' >= 1
             /\ workers' <= NumFiles
             /\ Len(wpc') = workers'
             /\ wg' = workers']_vars

\* ---------------------------------------------------- Runner claims
OutcomeNames == [k \in DOMAIN rsum.Outcomes |-> rsum.Outcomes[k].Result.Name]
OutcomesOf(n) == {k \in DOMAIN rsum.Outcomes : rsum.Outcomes[k].Result.Name = n}
CountStatus(S) ==
    Cardinality({k \in DOMAIN rsum.Outcomes : rsum.Outcomes[k].Result.Status \in S})
\* the status a check's evaluation is recorded with
Recorded(raw) == IF raw = Panic THEN Error ELSE raw
CriticalNames == {criticalChecks[k].name : k \in DOMAIN criticalChecks}
OrderedNames ==
    [k \in 1..(Len(criticalChecks) + Len(normalChecks)) |->
        IF k <= Len(criticalChecks) THEN criticalChecks[k].name
        ELSE normalChecks[k - Len(criticalChecks)].name]
AllRunOptions ==
    {buildRunOptions(f, r, h) : f \in BOOLEAN, r \in BOOLEAN, h \in BOOLEAN}

\* the step-by-step Runner returns what ValidateFn computes from the
\* results the checks returned, in every completion order
RunnerRefinesValidateFn ==
    rpc = "returned" =>
        [sum |-> rsum, verr |-> rerr]
            = ValidateFn(All, RunnerPath, RunnerData, rraw)

C6_NormalFailureContinues ==
    /\ (\E n \in NormalNames : evals[n] > 0) => ~rsum.EarlyExit
    /\ rpc = "returned" =>
          \A n \in NormalNames :
              rraw[n] \in {Fail, Error} =>
                  /\ ~rsum.EarlyExit
                  /\ Len(rsum.Outcomes) = Len(All)
                  /\ \A c \in Range(All) :
                        evals[c.name] = 1 /\ Cardinality(OutcomesOf(c.name)) = 1
                  /\ \A k \in OutcomesOf(n) :
                        rsum.Outcomes[k].Result.Status = rraw[n]
                  /\ rsum.Fail = Cardinality({m \in Names : rraw[m] = Fail})
                  /\ rsum.Error
                        = Cardinality({m \in Names : rraw[m] \in {Error, Bogus, Panic}})
                  /\ rerr = ErrValidationFailed
                  /\ \A o \in AllRunOptions :
                        LET oc == runOneFile(0, RunnerPath, TRUE,
                                             [sum |-> rsum, verr |-> rerr], o, TRUE)
                        IN /\ oc.HadValFail
                           /\ ~oc.HadOpErr
                           /\ oc.Failed = 1
                           /\ oc.Errored = 0

\* two normal checks, one returned Fail and one Pass
C6_Witness ==
    /\ rpc = "returned"
    /\ Len(normalChecks) = 2
    /\ Len(rsum.Outcomes) = 2
    /\ ~rsum.EarlyExit
    /\ rsum.Fail = 1
    /\ rsum.Pass = 1

\* C7 (as stated): a returned Summary with early-exit = true lacks the
\* Outcome of at least one registered check.
C7_StrictPrefix ==
    (rpc = "returned" /\ rsum.EarlyExit) =>
        \E c \in Range(All) : OutcomesOf(c.name) = {}

\* C7 (amended): a returned Summary with early-exit = true holds a prefix of
\* the ordered check set (critical checks in order, then normal ones) that
\* ends with the triggering check; the prefix is the whole set exactly when
\* the triggering check is the last critical check and no normal check is
\* registered, and strict otherwise.
C7_PrefixEndingAtTrigger ==
    (rpc = "returned" /\ rsum.EarlyExit) =>
        /\ IsPrefix(OutcomeNames, OrderedNames)
        /\ Len(rsum.Outcomes) >= 1
        /\ OutcomeNames[Len(rsum.Outcomes)] = rsum.EarlyCheck
        /\ rsum.EarlyCheck \in CriticalNames
        /\ (Len(rsum.Outcomes) = Len(All)) <=>
              /\ Len(normalChecks) = 0
              /\ rsum.EarlyCheck = criticalChecks[Len(criticalChecks)].name

\* an early exit with two checks registered and one Outcome recorded
C7_Witness ==
    /\ rpc = "returned"
    /\ rsum.EarlyExit
    /\ Len(All) = 2
    /\ Len(rsum.Outcomes) = 1

C9_PanicContained ==
    /\ rpc # "crashed"
    /\ \A n \in NormalNames : rraw[n] = Panic => task[n] = "done"
    /\ rpc = "returned" =>
          \A n \in Names :
              rraw[n] = Panic =>
                  /\ Cardinality(OutcomesOf(n)) = 1
                  /\ \A k \in OutcomesOf(n) :
                        rsum.Outcomes[k].Result.Status = Error
                  /\ n \in NormalNames =>
                        \A c \in Range(All) :
                            /\ evals[c.name] = 1
                            /\ Cardinality(OutcomesOf(c.name)) = 1
                  /\ n \in CriticalNames =>
                        /\ rsum.EarlyExit
                        /\ rsum.EarlyCheck = n
                        /\ rsum.EarlyStatus = Error

\* a normal check panicked and the other normal check's Pass is recorded
C9_Witness ==
    /\ rpc = "returned"
    /\ Len(rsum.Outcomes) = 2
    /\ rsum.Error = 1
    /\ rsum.Pass = 1
    /\ \E n \in NormalNames : rraw[n] = Panic

\* C16: with an empty registry the Runner runs nothing and returns a
\* Summary with zero Outcomes, all counters zero and early-exit false, and
\* no error.
C16_EmptyRegistryIsNoError ==
    (rpc = "returned" /\ All = <<>>) =>
        /\ rsum.Outcomes = <<>>
        /\ rsum.Pass = 0 /\ rsum.Warn = 0 /\ rsum.Fail = 0 /\ rsum.Error = 0
        /\ ~rsum.EarlyExit
        /\ rsum.FilePath = RunnerPath
        /\ rerr = NoErr
        /\ \A n \in Names : evals[n] = 0

\* Validate has returned on the empty registry
C16_Witness ==
    /\ rpc = "returned"
    /\ All = <<>>
    /\ criticalChecks = <<>>
    /\ normalChecks = <<>>

C25_NoPartialNormalResults ==
    /\ rpc = "normal" => Len(rsum.Outcomes) = Len(criticalChecks)
    /\ rpc = "returned" =>
          /\ \/ Len(rsum.Outcomes) <= Len(criticalChecks)
             \/ Len(rsum.Outcomes) = Len(criticalChecks) + Len(normalChecks)
          /\ ~rsum.EarlyExit =>
                /\ Len(rsum.Outcomes) = Len(All)
                /\ \A n \in NormalNames : task[n] = "done"
                /\ \A c \in Range(All) :
                      /\ evals[c.name] = 1
                      /\ Cardinality(OutcomesOf(c.name)) = 1
                      /\ \A k \in OutcomesOf(c.name) :
                            rsum.Outcomes[k].Result.Status = Recorded(rraw[c.name])
          /\ rsum.EarlyExit => \A n \in NormalNames : task[n] = "none"

\* a critical and a normal check, or two normal checks, all with Outcomes
C25_Witness ==
    /\ rpc = "returned"
    /\ ~rsum.EarlyExit
    /\ Len(normalChecks) = 2
    /\ \A n \in NormalNames : task[n] = "done"
    /\ Len(rsum.Outcomes) = 2
    /\ rsum.Pass = 2

\* C26: a Result whose status is none of the known values is counted under
\* Error and never under Pass; returned by a critical check it triggers the
\* early exit like any other non-Pass status; it makes the file a
\* validation failure.
C26_UnknownStatusFailsClosed ==
    rpc = "returned" =>
        \A n \in Names :
            rraw[n] = Bogus =>
                /\ Cardinality(OutcomesOf(n)) = 1
                /\ rsum.Pass = Cardinality({m \in Names : rraw[m] = Pass})
                /\ rsum.Error
                      = Cardinality({m \in Names : rraw[m] \in {Error, Bogus, Panic}})
                /\ rsum.Error >= 1
                /\ n \in CriticalNames =>
                      /\ rsum.EarlyExit
                      /\ rsum.EarlyCheck = n
                      /\ rsum.EarlyStatus = Bogus
                      /\ rsum.Outcomes[Len(rsum.Outcomes)].Result.Name = n
                      /\ \A m \in NormalNames : evals[m] = 0
                /\ rerr = ErrValidationFailed
                /\ \A o \in AllRunOptions :
                      LET oc == runOneFile(0, RunnerPath, TRUE,
                                           [sum |-> rsum, verr |-> rerr], o, TRUE)
                      IN oc.HadValFail /\ oc.Failed = 1 /\ oc.Passed = 0

\* a critical check returned an unrecognised status before a normal check
C26_Witness ==
    /\ rpc = "returned"
    /\ rsum.EarlyExit
    /\ rsum.EarlyStatus = Bogus
    /\ rsum.Error = 1
    /\ rsum.Pass = 0
    /\ Len(normalChecks) = 1

\* C36: Validate returns ErrValidationFailed if and only if the Summary it
\* returns has Fail > 0, Error > 0 or early-exit set, and no other error;
\* a non-empty registry whose checks all return Pass yields no error (and
\* a Pass count of all the checks).
C36_ErrorIffFailed ==
    rpc = "returned" =>
        /\ rerr \in {NoErr, ErrValidationFailed}
        /\ rerr = ErrValidationFailed <=>
              (rsum.Fail > 0 \/ rsum.Error > 0 \/ rsum.EarlyExit)
        /\ (Len(All) > 0 /\ \A k \in DOMAIN All : rraw[All[k].name] = Pass) =>
              /\ rerr = NoErr
              /\ rsum.Pass = Len(All)
              /\ ~rsum.EarlyExit

\* a critical and a normal check both passed: no error
C36_Witness ==
    /\ rpc = "returned"
    /\ Len(criticalChecks) = 1
    /\ Len(normalChecks) = 1
    /\ rraw[criticalChecks[1].name] = Pass
    /\ rraw[normalChecks[1].name] = Pass
    /\ rsum.Pass = 2
    /\ rerr = NoErr

\* ------------------------------------------- Outcome order claims
\* the Results of the normal checks, in the order the checks were started
StartOrderResults ==
    [k \in 1..Len(normalChecks) |-> MsgResult(normalChecks[k], rraw[k])]

\* C21: for a fixed registry and input the sequence of Outcomes of the
\* Summary is the same in every execution, whatever order the normal checks
\* complete in: it is the sequence that the Results give when they arrive
\* in the order the checks were started (critical Outcomes first, then the
\* normal ones sorted by name and status).
C21_OutcomeOrderDeterministic ==
    rpc = "returned" =>
        rsum.Outcomes
            = Collect(NewSummary(RunnerPath, RunnerData), StartOrderResults,
                      Len(criticalChecks)).Outcomes

\* ------------------------------------------------------ File claims
Returned == fpc \in {"validated", "done"}
\* the Outcome of check n in the Summary Validate returned
ReturnedOutcomes(n) ==
    {k \in DOMAIN fret.Outcomes : fret.Outcomes[k].Result.Name = n}
\* the checks evaluated in the last pass
LastPassNames == {n \in Names : evalPass[n] = fcalls}
\* what runOneFile makes of the Summary and error of Validate, the write
\* of the fixed file left aside
ValidationFailed ==
    fret.Fail > 0 \/ fret.Error > 0 \/ fverr # NoErr

\* C11: when the write of the fixed sibling file fails, the file's outcome
\* has HadOpErr set and Errored counted, and its Summary, its HadValFail
\* flag and its verdict counters are those of the validation: the Summary
\* Validate returned, a failure flag exactly when the validation failed.
C11_WriteFailureKeepsValidation ==
    wrote = "failed" =>
        /\ fpc = "done"
        /\ foc.HadOpErr
        /\ foc.Errored = 1
        /\ foc.Summary = fret
        /\ fret.AppliedFixes
        /\ foc.HadValFail <=> ValidationFailed
        /\ foc.Failed = (IF ValidationFailed THEN 1 ELSE 0)
        /\ foc.Warned = (IF ~ValidationFailed /\ fret.Warn > 0 THEN 1 ELSE 0)
        /\ foc.Passed = (IF ~ValidationFailed /\ fret.Warn = 0 THEN 1 ELSE 0)

\* the write failed for a file whose validation also failed: both flags
C11_Witness ==
    /\ wrote = "failed"
    /\ foc.HadOpErr
    /\ foc.HadValFail
    /\ Len(foc.Summary.Outcomes) = 2

\* the Summary of the pass that applied the fixes
FirstPass == IF fcalls >= 2 THEN fsum1 ELSE fret
FirstOutcomes(n) ==
    {k \in DOMAIN FirstPass.Outcomes : FirstPass.Outcomes[k].Result.Name = n}

\* C17 as stated: in fix mode FixIfNotPass, a check with a fix that
\* returned non-Pass, whose fix returned a different buffer and that passed
\* when evaluated again, has in the returned Summary an Outcome with
\* did-change set and status Pass, and the Summary has applied-fixes set.
C17_FixedCheckPassesInReturned ==
    Returned =>
        \A n \in fixedOk :
            /\ fret.AppliedFixes
            /\ \E k \in ReturnedOutcomes(n) :
                  /\ fret.Outcomes[k].Result.Status = Pass
                  /\ fret.Outcomes[k].Final.DidChange

\* C17, amended: for such a check the pass that applied the fix records
\* an Outcome with did-change set and status Pass, and the returned
\* Summary has applied-fixes set.  Without a rerun that Outcome is the
\* returned one; after a rerun the returned Outcome of the check keeps
\* did-change and has the status the rerun found, which is Pass when the
\* check passed again in the rerun.
C17_FixedCheckPasses ==
    Returned =>
        \A n \in fixedOk :
            /\ doFix
            /\ n \in fixable
            /\ preFix[n] \in {Warn, Fail}
            /\ fret.AppliedFixes
            /\ fret.FinalData > 0
            /\ Cardinality(FirstOutcomes(n)) = 1
            /\ \A k \in FirstOutcomes(n) :
                  /\ FirstPass.Outcomes[k].Result.Status = Pass
                  /\ FirstPass.Outcomes[k].Final.DidChange
            /\ \A k \in ReturnedOutcomes(n) :
                  /\ fret.Outcomes[k].Final.DidChange
                  /\ fret.Outcomes[k].Result.Status = lastEval[n]
            /\ (fcalls = 1 \/ (n \in LastPassNames /\ lastEval[n] = Pass)) =>
                  \E k \in ReturnedOutcomes(n) :
                      fret.Outcomes[k].Result.Status = Pass

\* one pass: a check failed, its fix changed the buffer, it passed
C17_Witness ==
    /\ fpc = "done"
    /\ fcalls = 1
    /\ \E n \in fixedOk :
          /\ preFix[n] = Fail
          /\ \E k \in ReturnedOutcomes(n) :
                /\ fret.Outcomes[k].Result.Status = Pass
                /\ fret.Outcomes[k].Final.DidChange
    /\ fret.AppliedFixes
    /\ foc.Passed = 1

\* C18: with rerun-after-fix set and fixes applied in the first pass,
\* Validate runs a second pass, and the Summary it returns has the
\* Outcomes and counters of that second pass: one Outcome per check the
\* second pass evaluated, with the status of that evaluation, which is
\* Pass for a check whose fix made the final buffer and passed on it; the
\* file's verdict is computed from that Summary.
C18_RerunSummaryIsReturned ==
    /\ (Returned /\ doFix /\ rerunAfterFix /\ fbuf > 0) => fcalls = 2
    /\ (Returned /\ fcalls = 2) =>
          /\ {fret.Outcomes[k].Result.Name : k \in DOMAIN fret.Outcomes}
                = LastPassNames
          /\ \A n \in LastPassNames :
                /\ Cardinality(ReturnedOutcomes(n)) = 1
                /\ \A k \in ReturnedOutcomes(n) :
                      fret.Outcomes[k].Result.Status = lastEval[n]
          /\ \A st \in FixStatuses :
                StatusCount(fret.Outcomes, st)
                    = Cardinality({n \in LastPassNames : lastEval[n] = st})
          /\ fret.Pass = StatusCount(fret.Outcomes, Pass)
          /\ fret.Warn = StatusCount(fret.Outcomes, Warn)
          /\ fret.Fail = StatusCount(fret.Outcomes, Fail)
          /\ fret.AppliedFixes
          /\ fret.FinalData = fbuf
          \* the one fix of the first pass succeeded: its check passes
          /\ \A n \in fixedOk \cap LastPassNames :
                fbuf = 1 => \A k \in ReturnedOutcomes(n) :
                               fret.Outcomes[k].Result.Status = Pass
    /\ (fpc = "done" /\ fcalls = 2) =>
          /\ foc.Summary = fret
          /\ foc.HadValFail <=>
                \E n \in LastPassNames :
                    \/ lastEval[n] = Fail
                    \/ lastEval[n] # Pass /\ \E k \in DOMAIN All :
                          All[k].name = n /\ IsCritical(All[k])
          /\ foc.Passed = 1 <=> \A n \in LastPassNames : lastEval[n] = Pass

\* a check failed before its fix and passes in the rerun; the file passes
C18_Witness ==
    /\ fpc = "done"
    /\ fcalls = 2
    /\ \E n \in LastPassNames :
          /\ preFix[n] = Fail
          /\ lastEval[n] = Pass
          /\ \E k \in ReturnedOutcomes(n) :
                fret.Outcomes[k].Result.Status = Pass
    /\ foc.Passed = 1
    /\ ~foc.HadValFail

\* an upper bound of the steps one file still takes: the rest of the
\* pass, a second pass while none was run, the return and the verdict
PassSteps == Len(All) + 4
RestOfPass ==
    CASE fpc = "crit" -> (Len(fcrit) - fk + 1) + Len(fnorm) + 3
      [] fpc = "norm" -> Len(fnorm) + 2
      [] fpc = "fixes" -> (Len(fnorm) - fk + 1) + 1
      [] OTHER -> 0
Remaining ==
    CASE fpc = "read" -> 2 * PassSteps + 5
      [] fpc = "validated" -> 1
      [] fpc = "done" -> 0
      [] OTHER -> RestOfPass + (IF fcalls < 2 THEN PassSteps + 1 ELSE 0) + 2

\* C19: for one file the Runner is invoked at most twice; the second pass
\* runs with fix mode None and no rerun request, invokes no fix, and is
\* followed by no further pass even when it still has non-Pass Results;
\* a second pass is run only after applied fixes with rerun-after-fix
\* set; the processing of the file terminates: a step can be taken until
\* the file's outcome is returned, every step lowers the natural number
\* Remaining, and there are at most three evaluations and one fix per
\* check.
C19_BoundedPasses ==
    /\ fcalls <= 2
    /\ \A p \in 2..MaxPasses : fixCalls[p] = 0
    /\ fixCalls[1] <= Len(All)
    /\ evalCalls <= 3 * Len(All)
    /\ fcalls = 2 =>
          /\ fopts.FixMode = FixNone
          /\ ~fopts.RerunAfterFix
          /\ doFix /\ rerunAfterFix
          /\ fsum1.AppliedFixes
          /\ fbuf = fsum1.FinalData

C19_AtMostOneRerun ==
    /\ []C19_BoundedPasses
    /\ [](fpc # "done" => ENABLED NextFile)
    /\ [][Remaining' < Remaining]_vars

\* the rerun still failed, and the file's processing ended there
C19_Witness ==
    /\ fpc = "done"
    /\ fcalls = 2
    /\ fret.Fail > 0
    /\ foc.HadValFail
    /\ fixCalls[1] > 0

\* no Outcome of sum is marked as changed
NoChange(sum) ==
    \A k \in DOMAIN sum.Outcomes : ~sum.Outcomes[k].Final.DidChange

\* C31: with fix mode None no fix is ever invoked: the buffer stays the
\* content read, there is one Runner pass, no Outcome has did-change, the
\* Summary returned has applied-fixes false and the input as its final
\* buffer, and no fixed sibling file is written (so no write can fail).
C31_NoFixWithoutFixMode ==
    ~doFix =>
        /\ \A p \in 1..MaxPasses : fixCalls[p] = 0
        /\ fixedOk = {}
        /\ fbuf = 0
        /\ fcalls <= 1
        /\ wrote = "none"
        /\ fcalls = 1 => fopts.FixMode = FixNone
        /\ fsum # NoSummary => NoChange(fsum) /\ ~fsum.AppliedFixes
        /\ Returned => (fret = NoSummary <=> fcalls = 0)
        /\ (Returned /\ fret # NoSummary) =>
              /\ NoChange(fret)
              /\ ~fret.AppliedFixes
              /\ fret.FinalData = 0
              /\ fret.FinalPath = RunnerPath
        /\ (fpc = "done" /\ foc.Summary # NoSummary) =>
              /\ ~foc.HadOpErr
              /\ foc.Errored = 0

\* without --fix, checks that have a fix failed and warned: the file is
\* failed, nothing was changed and nothing was written
C31_Witness ==
    /\ fpc = "done"
    /\ ~doFix
    /\ rerunAfterFix
    /\ fret # NoSummary
    /\ \E i, j \in DOMAIN fret.Outcomes :
          /\ fret.Outcomes[i].Result.Name \in fixable
          /\ fret.Outcomes[i].Result.Status = Fail
          /\ fret.Outcomes[j].Result.Name \in fixable
          /\ fret.Outcomes[j].Result.Status = Warn
    /\ foc.HadValFail
    /\ wrote = "none"

\* the critical check the pass is at
CritName == fcrit[fk].name
\* the checks that stand after position k of the pass's order
LaterNames(k) ==
    {fcrit[j].name : j \in (k + 1)..Len(fcrit)} \cup RegNamesOf(fnorm)

\* C32: in the critical phase with fix mode IfNotPass the early-exit
\* decision for a check is taken on the status of its last evaluation
\* (after its fix, when the fix changed the buffer): when that is Pass the
\* pass goes on to the next check with the corrected buffer as working
\* buffer, otherwise early exit is set with that check and status, its
\* Outcome is the last one and no later check is evaluated in the pass.
C32_EarlyExitOnReevaluation ==
    /\ [][(fpc = "crit" /\ fk <= Len(fcrit)) =>
             /\ evalPass'[CritName] = fcalls
             /\ evalBuf'[CritName] = fbuf'
             /\ fbuf' >= fbuf
             /\ fbuf' # fbuf =>
                   /\ fopts.FixMode = FixIfNotPass
                   /\ CritName \in fixable
                   /\ preFix'[CritName] # Pass
                   /\ fsum'.Outcomes[Len(fsum'.Outcomes)].Final.DidChange
             /\ fsum'.Outcomes[Len(fsum'.Outcomes)].Result
                   = Result(CritName, lastEval'[CritName])
             /\ IF lastEval'[CritName] = Pass
                THEN /\ fpc' = "crit"
                     /\ fk' = fk + 1
                     /\ ~fsum'.EarlyExit
                ELSE /\ fpc' = "passdone"
                     /\ fsum'.EarlyExit
                     /\ fsum'.EarlyCheck = CritName
                     /\ fsum'.EarlyStatus = lastEval'[CritName]]_vars
    /\ []((fpc \in {"crit", "norm", "fixes", "passdone"} /\ fsum.EarlyExit) =>
            /\ fpc = "passdone"
            /\ Len(fsum.Outcomes) = fk
            /\ \A n \in LaterNames(fk) : evalPass[n] # fcalls)
    /\ []((fpc = "crit" /\ fk <= Len(fcrit)) =>
            \A j \in 1..(fk - 1) :
                /\ evalPass[fcrit[j].name] = fcalls
                /\ lastEval[fcrit[j].name] = Pass
                /\ evalBuf[fcrit[j].name] <= fbuf)

\* two critical checks with fixes, both failed: the fix of the first made
\* it pass, the second was evaluated on the corrected buffer, and its own
\* fix left it failing: early exit on the second
C32_Witness ==
    /\ fpc = "passdone"
    /\ fcalls = 1
    /\ Len(fcrit) = 2
    /\ fcrit[1].name \in fixedOk
    /\ preFix[fcrit[1].name] = Fail
    /\ evalBuf[fcrit[1].name] = 1
    /\ preFix[fcrit[2].name] = Fail
    /\ lastEval[fcrit[2].name] = Fail
    /\ evalBuf[fcrit[2].name] = 2
    /\ fsum.EarlyExit
    /\ fsum.EarlyCheck = fcrit[2].name
    /\ Len(fsum.Outcomes) = 2

\* the normal checks of the pass, and the tasks still evaluating
NormNames == RegNamesOf(fnorm)
Evaluating == {n \in Names : task[n] = "spawned"}
\* a fix is being invoked, or the working buffer changes, in this step
FixStep == fixCalls' # fixCalls \/ preFix' # preFix \/ fbuf' # fbuf

\* C33: the fixes of normal checks never run while a normal check is
\* still being evaluated and never two at a time: every evaluation of
\* the phase sees the same buffer, the fixes are applied one per step in
\* the checks' sorted order once all evaluations have ended, and what is
\* recorded and which fixes are invoked is the same whatever the order
\* in which the evaluations ended.
C33_DeferredFixesSerialized ==
    /\ [][FixStep =>
             /\ Evaluating = {}
             /\ fpc \in {"crit", "fixes"}
             /\ fpc = "fixes" =>
                   /\ fk <= Len(fnorm)
                   /\ fk' = fk + 1
                   /\ fbuf' \in {fbuf, fbuf + 1}
                   /\ fixCalls'[fcalls] = fixCalls[fcalls] + 1
                   /\ fnorm[fk].name \in fixable
                   /\ preFix'[fnorm[fk].name] # Pass
                   /\ \A n \in Names \ {fnorm[fk].name} :
                         preFix'[n] = preFix[n]]_vars
    /\ [](fpc = "evals" =>
            /\ Evaluating \subseteq NormNames
            /\ Len(resCh) = Cardinality(NormNames \ Evaluating)
            /\ \A n \in NormNames \ Evaluating :
                  evalPass[n] = fcalls /\ evalBuf[n] = fbuf)
    /\ [](fpc = "fixes" =>
            /\ Evaluating = {}
            /\ \A j \in DOMAIN fnorm :
                  /\ fsum.Outcomes[Len(fcrit) + j].Result.Name = fnorm[j].name
                  /\ j >= fk =>
                        /\ fsum.Outcomes[Len(fcrit) + j].Result.Status
                              = lastEval[fnorm[j].name]
                        /\ ~fsum.Outcomes[Len(fcrit) + j].Final.DidChange
                        /\ evalBuf[fnorm[j].name] <= fbuf
                  /\ (j < fk /\ fcalls = 1) =>
                        IF preFix[fnorm[j].name] = ""
                        THEN \/ fopts.FixMode = FixNone
                             \/ fnorm[j].name \notin fixable
                             \/ lastEval[fnorm[j].name] = Pass
                        ELSE /\ fopts.FixMode = FixIfNotPass
                             /\ fnorm[j].name \in fixable
                             /\ preFix[fnorm[j].name] # Pass)

\* two normal checks with fixes: the second one's evaluation ended first,
\* both failed, and the fixes were applied first check first, each giving
\* a new buffer
C33_Witness ==
    /\ fpc = "passdone"
    /\ fcalls = 1
    /\ Len(fnorm) = 2
    /\ fixCalls[1] = 2
    /\ fbuf = 2
    /\ evalBuf[fnorm[1].name] = 1
    /\ evalBuf[fnorm[2].name] = 2
    /\ preFix[fnorm[1].name] = Fail
    /\ preFix[fnorm[2].name] = Warn
    /\ fsum.Outcomes[1].Result.Name = fnorm[1].name
    /\ fsum.Outcomes[1].Final.DidChange
    /\ fsum.Outcomes[2].Final.DidChange

\* the check whose fix the step invokes
FixedName == IF fpc = "crit" THEN fcrit[fk].name ELSE fnorm[fk].name

\* C34 as stated: the applied-fixes flag of the Summary Validate returns
\* is true if and only if one of its Outcomes has did-change set.
C34_AppliedFixesIffChanged ==
    (Returned /\ fret # NoSummary) => (fret.AppliedFixes <=> ~NoChange(fret))

\* C34, amended: the equivalence holds for the Summary of the pass that
\* applied the fixes, and for the returned Summary unless a rerun stopped
\* early; after a rerun the returned flag is the first pass's, so an
\* Outcome with did-change still implies the flag, but the flag can be set
\* with no such Outcome when the rerun stopped before the fixed check.  A
\* fix whose candidate equals its input leaves did-change false, the
\* working buffer and the recorded status unchanged; a fix that changes
\* the buffer sets did-change.
C34_AppliedFixesIffChangedInPass ==
    /\ []((Returned /\ fret # NoSummary) =>
            /\ FirstPass.AppliedFixes <=> ~NoChange(FirstPass)
            /\ fret.AppliedFixes = FirstPass.AppliedFixes
            /\ fret.AppliedFixes <=> fret.FinalData # 0
            /\ ~NoChange(fret) => fret.AppliedFixes
            /\ (fcalls = 1 \/ ~fret.EarlyExit) =>
                  (fret.AppliedFixes <=> ~NoChange(fret)))
    /\ []((fpc \in {"crit", "norm", "fixes", "passdone"}) =>
            (~NoChange(fsum) <=> (fcalls = 1 /\ fbuf # 0)))
    /\ [][fixCalls' # fixCalls =>
             LET k == OutcomeIndex(fsum', FixedName)
             IN /\ fsum'.Outcomes[k].Final.DidChange <=> fbuf' # fbuf
                /\ fbuf' = fbuf =>
                      fsum'.Outcomes[k].Result.Status = preFix'[FixedName]
                /\ \A j \in DOMAIN fsum'.Outcomes \ {k} :
                      j \in DOMAIN fsum.Outcomes =>
                          fsum'.Outcomes[j] = fsum.Outcomes[j]]_vars

\* two fixes were invoked in one pass: one returned its input, the other
\* changed the buffer; one Outcome has did-change, the flag is set
C34_Witness ==
    /\ Returned
    /\ fcalls = 1
    /\ fixCalls[1] = 2
    /\ fbuf = 1
    /\ fret.AppliedFixes
    /\ Cardinality({k \in DOMAIN fret.Outcomes :
                       fret.Outcomes[k].Final.DidChange}) = 1
    /\ Len(fret.Outcomes) = 2

\* C35: when the first pass's fixes changed the data and rerun-after-fix
\* is set, the Summary Validate returns after the rerun has applied-fixes
\* set and the corrected buffer (the one the rerun evaluated) as final
\* buffer, although the rerun invoked no fix; runOneFile then attempts
\* the write of the fixed sibling file, whatever the rerun's statuses.
C35_RerunKeepsAppliedFixes ==
    /\ (Returned /\ fret # NoSummary /\ doFix /\ rerunAfterFix /\ fbuf # 0) =>
          /\ fcalls = 2
          /\ fixCalls[1] > 0
          /\ fixCalls[2] = 0
          /\ fsum.FinalData = fbuf
          /\ NoChange(fsum)
          /\ fret.AppliedFixes
          /\ fret.FinalData = fbuf
          /\ fret.FinalData = fsum1.FinalData
          /\ fret.FinalPath = fsum1.FinalPath
          /\ fret.Outcomes =
                [k \in DOMAIN fsum.Outcomes |->
                    [Result |-> fsum.Outcomes[k].Result,
                     Final |-> fret.Outcomes[k].Final]]
          /\ fpc = "done" =>
                /\ wrote \in {"ok", "failed"}
                /\ foc.Summary = fret
                /\ foc.HadOpErr <=> wrote = "failed"
    /\ (fpc = "done" /\ wrote # "none") =>
          /\ doFix
          /\ fret.AppliedFixes
          /\ fret.FinalData # 0

\* the rerun passed on the corrected buffer and the fixed file was
\* written
C35_Witness ==
    /\ fpc = "done"
    /\ fcalls = 2
    /\ fret.AppliedFixes
    /\ fret.FinalData = 1
    /\ fret.Fail = 0
    /\ fret.Warn = 0
    /\ fsum1.Fail > 0
    /\ wrote = "ok"
    /\ foc.Passed = 1

\* ------------------------------------------------------ Path claims
\* the base of path (what precedes the extension of its final element)
\* ends with the marker
MarkedName(path) ==
    \E k \in DOMAIN path :
        /\ path[k] = "_fixed"
        /\ LET rest == SubSeq(path, k + 1, Len(path))
           IN \/ /\ rest = <<>>
                 /\ \A i \in DOMAIN path :
                       path[i] = "." => \E j \in (i + 1)..Len(path) : path[j] = "/"
              \/ /\ rest # <<>>
                 /\ rest[1] = "."
                 /\ \A i \in 2..Len(rest) : rest[i] \notin {".", "/"}

\* C20: withFixedPostfix(withFixedPostfix(p)) = withFixedPostfix(p) for
\* every path p, and a name whose base already ends with the marker is
\* returned unchanged (and any other name gets the marker).
C20_FixedPostfixIdempotent ==
    /\ ppc = "twice" => pathTwice = pathOnce
    /\ ppc \in {"once", "twice"} =>
          /\ MarkedName(pathIn) => pathOnce = pathIn
          /\ ~MarkedName(pathIn) => Len(pathOnce) = Len(pathIn) + 1
          /\ MarkedName(pathOnce)

\* a.a became a_fixed.a and stayed so
C20_Witness ==
    /\ ppc = "twice"
    /\ pathIn = <<"a", ".", "a">>
    /\ pathOnce = <<"a", "_fixed", ".", "a">>
    /\ pathTwice = pathOnce

\* C38: the path the corrected bytes are written to, withFixedPostfix of
\* the validated file's path, differs from that path, for every path: the
\* write of the fixed file never overwrites the input file.
C38_FixedPathDiffers ==
    ppc \in {"once", "twice"} => pathOnce # pathIn

\* -------------------------------------------------- Registry claims
Count(seq, c) == Cardinality({k \in DOMAIN seq : seq[k] = c})
RegNames == {All[k].name : k \in DOMAIN All}
\* the definition passed by the most recent Register call with name n
LastRegistered(n) ==
    registered[CHOOSE k \in DOMAIN registered :
                  /\ registered[k].name = n
                  /\ \A m \in DOMAIN registered :
                        registered[m].name = n => m <= k]

\* C12: after any sequence of Register calls the registry holds exactly one
\* check per distinct name, the one passed by the most recent Register call
\* with that name; registering a present name never grows the registry.
C12_ReplaceByName ==
    /\ \A i, j \in DOMAIN All : i # j => All[i].name # All[j].name
    /\ \A k \in DOMAIN All : All[k] = LastRegistered(All[k].name)
    /\ RegNames = {registered[k].name : k \in DOMAIN registered}

\* C13: Split() places every registered check in exactly one of the two
\* subsets, the fail-fast ones in critical and the others in normal, and
\* critical is sorted by (priority, name) ascending whatever the
\* registration order was.
C13_SplitPartitionsAndSorts ==
    regOp = "split" =>
        /\ \A c \in Checks : Count(critRet, c) + Count(normRet, c) = Count(All, c)
        /\ Len(critRet) + Len(normRet) = Len(All)
        /\ \A k \in DOMAIN critRet : critRet[k].ff
        /\ \A k \in DOMAIN normRet : ~normRet[k].ff
        /\ \A i, j \in DOMAIN critRet :
              i < j => \/ critRet[i].prio < critRet[j].prio
                       \/ /\ critRet[i].prio = critRet[j].prio
                          /\ critRet[i].name <= critRet[j].name

\* two critical checks of equal priority, registered in descending name
\* order, come back in ascending name order
C13_Witness ==
    /\ regOp = "split"
    /\ Len(critRet) = 2
    /\ All[1].ff /\ All[2].ff
    /\ All[1].prio = All[2].prio
    /\ All[1].name > All[2].name
    /\ critRet[1] = All[2]

C14_ReturnedSlicesAreCopies ==
    mutated > 0 =>
        /\ All = registered
        /\ regOp = "split" =>
              \A c \in Checks \cup {Mutated} :
                  Count(critRet, c) + Count(normRet, c) = Count(registered, c)

\* a Split() after a returned slice was overwritten
C14_Witness ==
    /\ regOp = "split"
    /\ mutated > 0
    /\ Len(registered) = 2
    /\ Len(critRet) + Len(normRet) = 2
    /\ Mutated \notin Range(critRet) \cup Range(normRet)

\* C15: after Reset(), whatever was registered before, the registry is
\* empty and, until the next Register, Split() returns two empty subsets.
C15_ResetClears ==
    /\ regOp = "reset" => All = <<>>
    /\ (regOp = "split" /\ registered = <<>>) =>
          critRet = <<>> /\ normRet = <<>>

\* a Reset() of a registry that held two checks
C15_Witness ==
    /\ regOp = "reset"
    /\ Len(sortedRet) = 2
    /\ All = <<>>

====
